---- MODULE Spec2Model ----
(***************************************************************************)
(* A model of the hypercube container (codeology-limited/hypercube):       *)
(* the partition pipeline (create_partition / extract_partition), the      *)
(* sequence tags, the two all-or-nothing transforms, the keyed MAC, and    *)
(* the container operations add_partition / seal_file / extract_from_vhc / *)
(* append_blocks_to_vhc.                                                   *)
(*                                                                         *)
(* Byte strings are symbolic.  A byte string is a sequence of cells; a     *)
(* cell [n, x] stands for n bytes that are the XOR of the atoms in x, and  *)
(* an atom names the bytes [off, off+n) of a source: input data, a         *)
(* compressed frame, a little-endian integer, a random key, the output of  *)
(* a hash / PRF / MAC applied to other byte strings.  XOR is symmetric     *)
(* difference of atom sets, the zero bytes are the empty set.  Hash, PRF   *)
(* and MAC outputs are free generators (distinct inputs give independent   *)
(* outputs): the usual perfect-cryptography reading of SHA3 / HMAC.        *)
(***************************************************************************)
EXTENDS Integers, Sequences, FiniteSets, TLC

VARIABLES file, pool, hdr, res, ghost, steps

vars == <<file, pool, hdr, res, ghost, steps>>

\* A Vec filled element by element, as the sequence of its elements.
Vec(f) == <<>> \o f

\* The one element of a singleton: The({e(x) : x \in {v}}) is e(v), with v
\* computed once.
The(S) == CHOOSE x \in S : TRUE

Min(a, b) == IF a < b THEN a ELSE b

Max(a, b) == IF a > b THEN a ELSE b

(***************************************************************************)
(* Symbolic byte strings                                                   *)
(***************************************************************************)
Atom(t, i, j, w, k, v) ==
  [t |-> t, i |-> i, j |-> j, w |-> w, k |-> k, v |-> v, off |-> 0, per |-> 0]

\* A source of per bytes repeated end to end (the same mask laid over every fragment).
Periodic(a, per) == [a EXCEPT !.per = per]

Cell(n, x) == [n |-> n, x |-> x]

Zeros(n) == IF n = 0 THEN <<>> ELSE <<Cell(n, {})>>

Source(n, a) == IF n = 0 THEN <<>> ELSE <<Cell(n, {a})>>

Shift(x, d) ==
  {[a EXCEPT !.off = IF a.per > 0 THEN (a.off + d) % a.per ELSE a.off + d] : a \in x}

SymDiff(x, y) == (x \ y) \cup (y \ x)

\* Sum of the cell lengths of b[lo..hi], by halves (the recursion stays shallow).
RECURSIVE ByteLenRange(_, _, _)
ByteLenRange(b, lo, hi) ==
  IF lo > hi THEN 0
  ELSE IF lo = hi THEN b[lo].n
  ELSE ByteLenRange(b, lo, (lo + hi) \div 2) + ByteLenRange(b, (lo + hi) \div 2 + 1, hi)

ByteLen(b) == ByteLenRange(b, 1, Len(b))

\* Append one cell, merging it into the last cell when it continues it.
Push(s, c) ==
  IF c.n = 0 THEN s
  ELSE IF s = <<>> THEN <<c>>
  ELSE LET l == s[Len(s)]
       IN IF c.x = Shift(l.x, l.n)
          THEN [s EXCEPT ![Len(s)] = Cell(l.n + c.n, l.x)]
          ELSE Append(s, c)

\* extend_from_slice: two byte strings joined; only the cells at the joint can merge.
Concat(a, b) ==
  IF b = <<>> THEN a ELSE IF a = <<>> THEN b ELSE Push(a, b[1]) \o Tail(b)

\* b[lo..hi) for a byte string b, by halves; start is the byte offset of
\* cell klo.
RECURSIVE SliceRange(_, _, _, _, _, _)
SliceRange(b, klo, khi, start, lo, hi) ==
  IF klo > khi \/ start >= hi THEN <<>>
  ELSE IF klo = khi
  THEN LET c == b[klo]
           u == Max(lo, start)
           v == Min(hi, start + c.n)
       IN IF v <= u THEN <<>> ELSE <<Cell(v - u, Shift(c.x, u - start))>>
  ELSE The({(IF start + left_len <= lo THEN <<>>
             ELSE SliceRange(b, klo, (klo + khi) \div 2, start, lo, hi))
              \o SliceRange(b, (klo + khi) \div 2 + 1, khi, start + left_len, lo, hi) :
            left_len \in {ByteLenRange(b, klo, (klo + khi) \div 2)}})

Slice(b, lo, hi) == SliceRange(b, 1, Len(b), 0, lo, hi)

\* xor_in_place(data, key): zip stops at the shorter; the rest of data is kept.
RECURSIVE XorFrom(_, _, _)
XorFrom(acc, a, b) ==
  IF a = <<>> THEN acc
  ELSE IF b = <<>> THEN Concat(acc, a)
  ELSE LET m == Min(a[1].n, b[1].n)
           c == Cell(m, SymDiff(a[1].x, b[1].x))
           ra == IF a[1].n = m THEN Tail(a)
                 ELSE <<Cell(a[1].n - m, Shift(a[1].x, m))>> \o Tail(a)
           rb == IF b[1].n = m THEN Tail(b)
                 ELSE <<Cell(b[1].n - m, Shift(b[1].x, m))>> \o Tail(b)
       IN XorFrom(Push(acc, c), ra, rb)

xor_in_place(data, key) == XorFrom(<<>>, data, key)

\* resize(n, 0): zero-extend (the code only ever grows the vector here).
Resize(b, n) == IF ByteLen(b) >= n THEN Slice(b, 0, n) ELSE Concat(b, Zeros(n - ByteLen(b)))

IsZero(b) == \A k \in 1..Len(b) : b[k].x = {}

(***************************************************************************)
(* Geometry and header (hypercube/src/header.rs)                           *)
(***************************************************************************)
SEQUENCE_SIZE == 16

KEY_SIZE == 32

PartitionMetaSIZE == 16

Ok(v) == [ok |-> TRUE, err |-> "", msg |-> "", arg |-> 0, val |-> v]

Err(e, m, a) == [ok |-> FALSE, err |-> e, msg |-> m, arg |-> a, val |-> <<>>]

RECURSIVE GrowFragSize(_, _)
GrowFragSize(block_size, frag_size) ==
  IF frag_size * 2 <= block_size /\ (block_size \div (frag_size * 2)) > 8 /\ frag_size * 2 <= 256
  THEN GrowFragSize(block_size, frag_size * 2)
  ELSE frag_size

\* A variant of ShrinkFragSize that keeps the size the first loop reached.
ShrinkFragSizeSkipped(block_size, frag_size) == frag_size

RECURSIVE ShrinkFragSize(_, _)
ShrinkFragSize(block_size, frag_size) ==
  IF frag_size > 1 /\ block_size % frag_size # 0
  THEN ShrinkFragSize(block_size, frag_size \div 2)
  ELSE frag_size

calculate_fragment_size(block_size) ==
  IF block_size = 0 THEN 1 ELSE ShrinkFragSize(block_size, GrowFragSize(block_size, 1))

\* A variant of VhcHeader::new that validates partitions only, not
\* blocks_per_partition.
VhcHeaderNewOneDimension(cube_id, partitions, blocks_per_partition, block_size, mac_bits) ==
  IF partitions < 8 \/ partitions % 8 # 0 THEN Err("InvalidDimension", "", partitions)
  ELSE IF block_size < 32 \/ block_size % 2 # 0 THEN Err("InvalidBlockSize", "", block_size)
  ELSE IF mac_bits # 128 /\ mac_bits # 256 /\ mac_bits # 512
  THEN Err("InvalidMacBits", "", mac_bits)
  ELSE Ok([version |-> 1,
           cube_id |-> cube_id,
           dimension |-> partitions,
           blocks_per_partition |-> blocks_per_partition,
           block_size |-> block_size,
           mac_bits |-> mac_bits,
           compression |-> "zstd",
           aont |-> "rivest",
           hash |-> "sha3",
           fragment_size |-> calculate_fragment_size(block_size)])

VhcHeaderNew(cube_id, partitions, blocks_per_partition, block_size, mac_bits) ==
  IF partitions < 8 \/ partitions % 8 # 0 THEN Err("InvalidDimension", "", partitions)
  ELSE IF blocks_per_partition < 8 \/ blocks_per_partition % 8 # 0
  THEN Err("InvalidDimension", "", blocks_per_partition)
  ELSE IF block_size < 32 \/ block_size % 2 # 0 THEN Err("InvalidBlockSize", "", block_size)
  ELSE IF mac_bits # 128 /\ mac_bits # 256 /\ mac_bits # 512
  THEN Err("InvalidMacBits", "", mac_bits)
  ELSE Ok([version |-> 1,
           cube_id |-> cube_id,
           dimension |-> partitions,
           blocks_per_partition |-> blocks_per_partition,
           block_size |-> block_size,
           mac_bits |-> mac_bits,
           compression |-> "zstd",
           aont |-> "rivest",
           hash |-> "sha3",
           fragment_size |-> calculate_fragment_size(block_size)])

mac_bytes(h) == h.mac_bits \div 8

\* A variant of data_blocks_per_partition that forgets the Rivest key block.
data_blocks_ignoring_key_block(h) == h.blocks_per_partition

data_blocks_per_partition(h) ==
  IF h.aont = "rivest" THEN Max(h.blocks_per_partition - 1, 0) ELSE h.blocks_per_partition

theoretical_block_count(h) == h.blocks_per_partition * h.dimension

\* A variant of total_block_size that leaves the sequence tag out.
total_block_size_untagged(h) == h.block_size + mac_bytes(h)

total_block_size(h) == h.block_size + 16 + mac_bytes(h)

\* PartitionMeta::to_bytes: two u64, little-endian.  The integer 0 is eight zero bytes.
U64Le(v) == IF v = 0 THEN Zeros(8) ELSE Source(8, Atom("u64", v, 0, <<>>, <<>>, <<>>))

PartitionMetaToBytes(m) == Concat(U64Le(m.compressed_size), U64Le(m.original_size))

\* The eight bytes of 2^64 - k, for k >= 1.
U64LeTop(k) == Source(8, Atom("u64", k, 1, <<>>, <<>>, <<>>))

\* u64::from_le_bytes.  A 64-bit value is [kind, v]: "small" is the value v,
\* "top" the value 2^64 - v, and "unknown" a value the model does not name
\* (hash or mask residue), neither small nor near 2^64.
U64FromLe(b) ==
  IF IsZero(b) THEN [kind |-> "small", v |-> 0]
  ELSE IF Len(b) = 1 /\ b[1].n = 8 /\ Cardinality(b[1].x) = 1
          /\ (\A a \in b[1].x : a.t = "u64" /\ a.off = 0)
  THEN The({[kind |-> IF a.j = 1 THEN "top" ELSE "small", v |-> a.i] : a \in b[1].x})
  ELSE [kind |-> "unknown", v |-> 0]

\* a + (x as usize) on a 64-bit target, for a small a: the sum and whether
\* the addition overflowed the word (the sum is then the wrapped value).
usize_add(a, x) ==
  IF x.kind = "small" THEN [overflow |-> FALSE, kind |-> "small", v |-> a + x.v]
  ELSE IF x.kind = "top" /\ x.v <= a THEN [overflow |-> TRUE, kind |-> "small", v |-> a - x.v]
  ELSE IF x.kind = "top" THEN [overflow |-> FALSE, kind |-> "top", v |-> x.v - a]
  ELSE [overflow |-> FALSE, kind |-> "unknown", v |-> 0]

PartitionMetaFromBytes(data) ==
  [compressed_size |-> U64FromLe(Slice(data, 0, 8)),
   original_size |-> U64FromLe(Slice(data, 8, 16))]

(***************************************************************************)
(* Compression (src/pipeline/compress.rs).  The backends are libraries:    *)
(* a frame is a byte string of its own whose length the input carries.     *)
(***************************************************************************)
DataBytes(p) == Source(p.len, Atom("data", p.id, p.zlen, <<p.len>>, <<>>, <<>>))

compress(data, algorithm) ==
  IF algorithm = "none" THEN data
  ELSE LET a == CHOOSE a \in data[1].x : TRUE
       IN Source(a.j, Atom(algorithm, a.i, a.j, a.w, <<>>, <<>>))

IsFrame(data, algorithm) ==
  /\ Len(data) = 1
  /\ Cardinality(data[1].x) = 1
  /\ \A a \in data[1].x : a.t = algorithm /\ a.off = 0 /\ a.j = data[1].n

decompress(data, algorithm) ==
  IF algorithm = "none" THEN Ok(data)
  ELSE IF IsFrame(data, algorithm)
  THEN LET a == CHOOSE a \in data[1].x : TRUE
       IN Ok(Source(a.w[1], Atom("data", a.i, a.j, a.w, <<>>, <<>>)))
  ELSE Err("DecompressionError", algorithm, 0)

(***************************************************************************)
(* Sequence tags (src/pipeline/sequence.rs).  A u128 is written as its 16  *)
(* base-256 digits, most significant first; a SequenceNumber holds the     *)
(* little-endian bytes.                                                    *)
(***************************************************************************)
Reverse(s) == Vec([k \in 1..Len(s) |-> s[Len(s) + 1 - k]])

to_le_bytes(u) == Reverse(u)

from_le_bytes(b) == Reverse(b)

SequenceNumberNew(value) == to_le_bytes(value)

to_u128(sn) == from_le_bytes(sn)

\* u128::wrapping_add(1) on the digits, carrying from the last digit up.
RECURSIVE AddOneAt(_, _)
AddOneAt(u, k) ==
  IF k = 0 THEN u
  ELSE IF u[k] = 255 THEN AddOneAt([u EXCEPT ![k] = 0], k - 1)
  ELSE [u EXCEPT ![k] = u[k] + 1]

RECURSIVE wrapping_add(_, _)
wrapping_add(u, n) == IF n = 0 THEN u ELSE wrapping_add(AddOneAt(u, Len(u)), n - 1)

\* A variant of increment that stops at u128::MAX instead of wrapping.
increment_saturating(sn) ==
  IF \A k \in 1..Len(sn) : sn[k] = 255 THEN sn
  ELSE to_le_bytes(wrapping_add(to_u128(sn), 1))

increment(sn) == to_le_bytes(wrapping_add(to_u128(sn), 1))

\* derive(PartialOrd, Ord) on SequenceNumber([u8; 16]): arrays compare
\* element by element from index 0.
RECURSIVE ArrayLessFrom(_, _, _)
ArrayLessFrom(a, b, k) ==
  IF k > Len(a) THEN FALSE
  ELSE IF a[k] # b[k] THEN a[k] < b[k]
  ELSE ArrayLessFrom(a, b, k + 1)

SequenceLess(a, b) == ArrayLessFrom(a, b, 1)

RECURSIVE sequence_blocks_from(_, _, _)
sequence_blocks_from(blocks, k, seq) ==
  IF k > Len(blocks) THEN <<>>
  ELSE <<[sequence |-> seq, data |-> blocks[k]]>> \o sequence_blocks_from(blocks, k + 1, increment(seq))

sequence_blocks(blocks, base) == sequence_blocks_from(blocks, 1, SequenceNumberNew(base))

\* sort_by_key(|b| b.sequence): a stable sort, here by insertion.
RECURSIVE InsertSorted(_, _, _)
InsertSorted(s, b, k) ==
  IF k > Len(s) THEN Append(s, b)
  ELSE IF SequenceLess(b.sequence, s[k].sequence)
  THEN SubSeq(s, 1, k - 1) \o <<b>> \o SubSeq(s, k, Len(s))
  ELSE InsertSorted(s, b, k + 1)

RECURSIVE SortFrom(_, _, _)
SortFrom(acc, blocks, k) ==
  IF k > Len(blocks) THEN acc ELSE SortFrom(InsertSorted(acc, blocks[k], 1), blocks, k + 1)

sort_by_key(blocks) == SortFrom(<<>>, blocks, 1)

\* A variant of unsequence_blocks that sorts and does not check the run.
unsequence_unchecked(blocks) ==
  LET sorted == sort_by_key(blocks)
  IN [some |-> TRUE, val |-> Vec([i \in 1..Len(sorted) |-> sorted[i].data])]

\* Some(blocks) is [some |-> TRUE, val |-> blocks]; None is [some |-> FALSE].
unsequence_blocks(blocks) ==
  IF blocks = <<>> THEN [some |-> TRUE, val |-> <<>>]
  ELSE LET sorted == sort_by_key(blocks)
           base == to_u128(sorted[1].sequence)
       IN IF \E i \in 1..Len(sorted) : to_u128(sorted[i].sequence) # wrapping_add(base, i - 1)
          THEN [some |-> FALSE, val |-> <<>>]
          ELSE [some |-> TRUE, val |-> Vec([i \in 1..Len(sorted) |-> sorted[i].data])]

(***************************************************************************)
(* Segment and fragment (hypercube/src/pipeline/segment.rs,                *)
(* src/pipeline/fragment.rs)                                               *)
(***************************************************************************)
RECURSIVE segment_from(_, _, _)
segment_from(data, block_size, offset) ==
  IF offset >= ByteLen(data) THEN <<>>
  ELSE LET end == Min(offset + block_size, ByteLen(data))
       IN <<Resize(Slice(data, offset, end), block_size)>>
          \o segment_from(data, block_size, offset + block_size)

segment(data, block_size) ==
  IF data = <<>> THEN <<Zeros(block_size)>> ELSE segment_from(data, block_size, 0)

\* chunks_exact(fragment_size); the assertion of fragment_block is FragmentPanics.
fragment_block(block, fragment_size) ==
  Vec([k \in 1..(ByteLen(block) \div fragment_size) |->
         Slice(block, (k - 1) * fragment_size, k * fragment_size)])

FragmentPanics(blocks, fragment_size) ==
  \E k \in 1..Len(blocks) : ByteLen(blocks[k]) % fragment_size # 0

RECURSIVE FlattenFrom(_, _)
FlattenFrom(ss, k) == IF k > Len(ss) THEN <<>> ELSE ss[k] \o FlattenFrom(ss, k + 1)

\* Returns <<fragments, fragments_per_block>>.
fragment_all(blocks, fragment_size) ==
  IF blocks = <<>> THEN <<<<>>, 0>>
  ELSE <<FlattenFrom(Vec([k \in 1..Len(blocks) |-> fragment_block(blocks[k], fragment_size)]), 1),
         ByteLen(blocks[1]) \div fragment_size>>

\* The byte strings frags[lo..hi] joined in order, by halves.
RECURSIVE ConcatRange(_, _, _)
ConcatRange(frags, lo, hi) ==
  IF lo > hi THEN <<>>
  ELSE IF lo = hi THEN frags[lo]
  ELSE Concat(ConcatRange(frags, lo, (lo + hi) \div 2),
              ConcatRange(frags, (lo + hi) \div 2 + 1, hi))

ConcatAll(frags) == ConcatRange(frags, 1, Len(frags))

unfragment_block(fragments) == ConcatAll(fragments)

unfragment_all(fragments, fragments_per_block) ==
  IF fragments = <<>> \/ fragments_per_block = 0 THEN <<>>
  ELSE Vec([b \in 1..(Len(fragments) \div fragments_per_block) |->
              unfragment_block(SubSeq(fragments, (b - 1) * fragments_per_block + 1,
                                      b * fragments_per_block))])

(***************************************************************************)
(* All-or-nothing transforms (hypercube/src/pipeline/aont.rs)              *)
(***************************************************************************)
\* SHA3-256(label || key || index || ctr) for ctr = 0, 1, ...: one output stream.
prf(key, index, length) == Source(length, Atom("prf", index, 0, <<>>, key, <<>>))

hash_indexed(index, data) == Source(KEY_SIZE, Atom("sha3_indexed", index, 0, <<>>, <<>>, data))

compute_half_hash(fragments) ==
  Source(KEY_SIZE, Atom("sha3_half", 0, 0, <<>>, <<>>, ConcatAll(fragments)))

\* SHA3-256(seed || ctr) for ctr = 0, 1, ...: the first length bytes of one stream.
\* Every caller asks for the same length under one seed, so the masks of
\* neighbouring fragments are one stream repeated with period length.
expand_hash(seed, length) ==
  Source(length, Periodic(Atom("expand", 0, 0, <<>>, seed, <<>>), length))

\* fragments[i] ^= prf(key, i, len), i counted from 0.
MaskAll(fragments, key) ==
  Vec([i \in 1..Len(fragments) |->
         xor_in_place(fragments[i], prf(key, i - 1, ByteLen(fragments[i])))])

\* The XOR of hash_indexed(i, fragments[i]) for lo <= i+1 <= hi, by halves.
RECURSIVE XorHashes(_, _, _)
XorHashes(fragments, lo, hi) ==
  IF lo > hi THEN <<>>
  ELSE IF lo = hi THEN hash_indexed(lo - 1, fragments[lo])
  ELSE xor_in_place(XorHashes(fragments, lo, (lo + hi) \div 2),
                    XorHashes(fragments, (lo + hi) \div 2 + 1, hi))

\* key_block ^= hash_indexed(i, fragments[i]) for every i.
FoldHashes(key_block, fragments) ==
  xor_in_place(key_block, XorHashes(fragments, 1, Len(fragments)))

key_frags_needed(frag_size) == (KEY_SIZE + frag_size - 1) \div frag_size

KeyFrag(key_block, i, frag_size) ==
  LET start == i * frag_size
      end == Min(start + frag_size, KEY_SIZE)
  IN IF i < key_frags_needed(frag_size) /\ start < KEY_SIZE
     THEN Concat(Slice(key_block, start, end), Zeros(frag_size - (end - start)))
     ELSE Zeros(frag_size)

rivest_aont_apply(fragments, frags_per_block, key) ==
  IF fragments = <<>> THEN fragments
  ELSE LET frag_size == ByteLen(fragments[1])
           masked == MaskAll(fragments, key)
           key_block == FoldHashes(key, masked)
       IN masked \o [i \in 1..frags_per_block |-> KeyFrag(key_block, i - 1, frag_size)]

\* key_block[start..end].copy_from_slice(&frag[..copy_len]) for the first
\* key_frags_needed key fragments.
RECURSIVE ReadKeyBlock(_, _, _, _)
ReadKeyBlock(key_block, key_frags, i, frag_size) ==
  IF i >= Len(key_frags) \/ i >= key_frags_needed(frag_size) THEN key_block
  ELSE LET start == i * frag_size
           end == Min(start + frag_size, KEY_SIZE)
       IN IF start < KEY_SIZE
          THEN ReadKeyBlock(Concat(Concat(Slice(key_block, 0, start),
                                          Slice(key_frags[i + 1], 0, end - start)),
                                   Slice(key_block, end, KEY_SIZE)),
                            key_frags, i + 1, frag_size)
          ELSE ReadKeyBlock(key_block, key_frags, i + 1, frag_size)

rivest_aont_reverse(fragments, frags_per_block) ==
  IF Len(fragments) < frags_per_block + 1 THEN fragments
  ELSE LET frag_size == ByteLen(fragments[1])
           body == SubSeq(fragments, 1, Len(fragments) - frags_per_block)
           key_frags == SubSeq(fragments, Len(fragments) - frags_per_block + 1, Len(fragments))
           stored == ReadKeyBlock(Zeros(KEY_SIZE), key_frags, 0, frag_size)
           key == FoldHashes(stored, body)
       IN MaskAll(body, key)

oaep_aont_apply(fragments) ==
  IF Len(fragments) < 2 THEN fragments
  ELSE LET n == Len(fragments)
           mid == n \div 2
           left_hash == compute_half_hash(SubSeq(fragments, 1, mid))
           right == Vec([j \in 1..(n - mid) |->
                       xor_in_place(fragments[mid + j],
                                    expand_hash(left_hash, ByteLen(fragments[mid + j])))])
           right_hash == compute_half_hash(right)
           left == Vec([j \in 1..mid |->
                      xor_in_place(fragments[j],
                                   expand_hash(right_hash, ByteLen(fragments[j])))])
       IN left \o right

\* A variant of oaep_aont_reverse that runs the two rounds in the order of
\* oaep_aont_apply.
oaep_aont_reverse_same_order(fragments) == oaep_aont_apply(fragments)

oaep_aont_reverse(fragments) ==
  IF Len(fragments) < 2 THEN fragments
  ELSE LET n == Len(fragments)
           mid == n \div 2
           right_hash == compute_half_hash(SubSeq(fragments, mid + 1, n))
           left == Vec([j \in 1..mid |->
                      xor_in_place(fragments[j],
                                   expand_hash(right_hash, ByteLen(fragments[j])))])
           left_hash == compute_half_hash(left)
           right == Vec([j \in 1..(n - mid) |->
                       xor_in_place(fragments[mid + j],
                                    expand_hash(left_hash, ByteLen(fragments[mid + j])))])
       IN left \o right

apply_aont(fragments, algorithm, frags_per_block, key) ==
  IF algorithm = "rivest" THEN rivest_aont_apply(fragments, frags_per_block, key)
  ELSE oaep_aont_apply(fragments)

reverse_aont(fragments, algorithm, frags_per_block) ==
  IF algorithm = "rivest" THEN rivest_aont_reverse(fragments, frags_per_block)
  ELSE oaep_aont_reverse(fragments)

(***************************************************************************)
(* Keyed MAC (hypercube/src/pipeline/mac.rs)                               *)
(***************************************************************************)
blake3_hash(data) == Source(32, Atom("blake3", 0, 0, <<>>, <<>>, data))

RECURSIVE ExtendMac(_, _)
ExtendMac(result, bytes) ==
  IF ByteLen(result) < bytes THEN ExtendMac(Concat(result, blake3_hash(result)), bytes)
  ELSE Slice(result, 0, bytes)

truncate_mac(mac, bytes) ==
  IF bytes >= ByteLen(mac) THEN ExtendMac(mac, bytes) ELSE Slice(mac, 0, bytes)

\* A variant of compute_mac_raw that hashes the message without the secret.
compute_mac_unkeyed(data, secret, algorithm, mac_bits) ==
  truncate_mac(blake3_hash(data), mac_bits \div 8)

compute_mac_raw(data, secret, algorithm, mac_bits) ==
  LET bytes == mac_bits \div 8
  IN IF algorithm = "sha3"
     THEN truncate_mac(Source(32, Atom("hmac_sha3", 0, 0, <<>>, secret, data)), bytes)
     ELSE IF algorithm = "blake3"
     THEN truncate_mac(Source(32, Atom("blake3_keyed", 0, 0, <<>>, blake3_hash(secret), data)),
                       bytes)
     ELSE truncate_mac(Source(32, Atom("hmac_sha256", 0, 0, <<>>, secret, data)), bytes)

\* The 16 bytes of a SequenceNumber inside a byte string, and back.
TagBytes(sn) == Source(SEQUENCE_SIZE, Atom("tag", 0, 0, sn, <<>>, <<>>))

IsTag(b) ==
  /\ Len(b) = 1
  /\ b[1].n = SEQUENCE_SIZE
  /\ Cardinality(b[1].x) = 1
  /\ \A a \in b[1].x : a.t = "tag" /\ a.off = 0

SequenceNumberFromBytes(b) ==
  IF IsTag(b) THEN (CHOOSE a \in b[1].x : TRUE).w ELSE Vec([k \in 1..SEQUENCE_SIZE |-> 0])

constant_time_compare(a, b) == ByteLen(a) = ByteLen(b) /\ a = b

\* A variant of verify_mac that compares the lengths only.
verify_mac_length_only(block, secret, algorithm, mac_bits) ==
  ByteLen(block.mac) = mac_bits \div 8

verify_mac(block, secret, algorithm, mac_bits) ==
  constant_time_compare(
    compute_mac_raw(Concat(block.sequence_bytes, block.data), secret, algorithm, mac_bits),
    block.mac)

authenticate_blocks(blocks, secret, algorithm, mac_bits) ==
  Vec([k \in 1..Len(blocks) |->
         [sequence_bytes |-> TagBytes(blocks[k].sequence),
          data |-> blocks[k].data,
          mac |-> compute_mac_raw(Concat(TagBytes(blocks[k].sequence), blocks[k].data),
                                  secret, algorithm, mac_bits)]])

(***************************************************************************)
(* Partition pipeline (hypercube/src/partition.rs)                         *)
(***************************************************************************)
None == [some |-> FALSE, val |-> 0]

Some(v) == [some |-> TRUE, val |-> v]

\* meta || compressed, before padding.
data_with_meta(data, header) ==
  LET compressed == compress(data, header.compression)
  IN Concat(PartitionMetaToBytes([compressed_size |-> ByteLen(compressed),
                                  original_size |-> ByteLen(data)]),
            compressed)

SerializeBlock(block) == Concat(Concat(block.sequence_bytes, block.data), block.mac)

\* Steps 3..8 of create_partition: segment, fragment, AONT, unfragment,
\* sequence, authenticate, serialize.
ProtectPayload(padded, secret, header, sequence_base, key) ==
  LET blocks == segment(padded, header.block_size)
      fr == fragment_all(blocks, header.fragment_size)
      fragments == apply_aont(fr[1], header.aont, fr[2], key)
      transformed_blocks == unfragment_all(fragments, fr[2])
      sequenced == sequence_blocks(transformed_blocks, sequence_base)
      authenticated == authenticate_blocks(sequenced, secret, header.hash, header.mac_bits)
  IN Vec([k \in 1..Len(authenticated) |-> SerializeBlock(authenticated[k])])

\* sequence_base and key are the two random draws of the pipeline
\* (generate_sequence_base, the Rivest key).
\* A variant of create_partition that does not pad the payload to pad_to_blocks.
create_partition_unpadded(data, secret, header, pad_to_blocks, sequence_base, key) ==
  LET with_meta == data_with_meta(data, header)
      target_bytes == header.block_size * pad_to_blocks.val
  IN IF pad_to_blocks.some /\ pad_to_blocks.val = 0 THEN Err("InvalidDimension", "", 0)
     ELSE IF pad_to_blocks.some /\ ByteLen(with_meta) > target_bytes
     THEN Err("FileFull", "", pad_to_blocks.val)
     ELSE Ok(ProtectPayload(with_meta, secret, header, sequence_base, key))

create_partition(data, secret, header, pad_to_blocks, sequence_base, key) ==
  LET with_meta == data_with_meta(data, header)
      target_bytes == header.block_size * pad_to_blocks.val
  IN IF pad_to_blocks.some /\ pad_to_blocks.val = 0 THEN Err("InvalidDimension", "", 0)
     ELSE IF pad_to_blocks.some /\ ByteLen(with_meta) > target_bytes
     THEN Err("FileFull", "", pad_to_blocks.val)
     ELSE LET padded == IF pad_to_blocks.some THEN Resize(with_meta, target_bytes)
                        ELSE with_meta
          IN Ok(ProtectPayload(padded, secret, header, sequence_base, key))

ParseBlock(block, data_size) ==
  [sequence_bytes |-> Slice(block, 0, SEQUENCE_SIZE),
   data |-> Slice(block, SEQUENCE_SIZE, SEQUENCE_SIZE + data_size),
   mac |-> Slice(block, SEQUENCE_SIZE + data_size, ByteLen(block))]

\* A variant of authenticated_blocks that stops after one partition's worth of
\* blocks.
authenticated_blocks_one_partition(all_blocks, secret, header) ==
  LET expected_block_size == SEQUENCE_SIZE + header.block_size + mac_bytes(header)
      Verifies(block) ==
        /\ ByteLen(block) = expected_block_size
        /\ verify_mac(ParseBlock(block, header.block_size), secret, header.hash,
                      header.mac_bits)
      kept == SelectSeq(all_blocks, Verifies)
  IN Vec([k \in 1..Min(Len(kept), header.blocks_per_partition) |->
            ParseBlock(kept[k], header.block_size)])

\* Step 1 of extract_partition: the blocks of the expected length whose MAC
\* verifies, in the order of the scan.
authenticated_blocks(all_blocks, secret, header) ==
  LET expected_block_size == SEQUENCE_SIZE + header.block_size + mac_bytes(header)
      Verifies(block) ==
        /\ ByteLen(block) = expected_block_size
        /\ verify_mac(ParseBlock(block, header.block_size), secret, header.hash,
                      header.mac_bits)
      kept == SelectSeq(all_blocks, Verifies)
  IN Vec([k \in 1..Len(kept) |-> ParseBlock(kept[k], header.block_size)])

\* Steps 4..10 of extract_partition, from the blocks in sequence order.
RecoverPayload(transformed_blocks, header) ==
  LET fr == fragment_all(transformed_blocks, header.fragment_size)
      fragments == reverse_aont(fr[1], header.aont, fr[2])
      all_data == unfragment_block(unfragment_all(fragments, fr[2]))
      meta == PartitionMetaFromBytes(all_data)
      compressed_end == usize_add(PartitionMetaSIZE, meta.compressed_size)
  IN IF ByteLen(all_data) < PartitionMetaSIZE
     THEN Err("IntegrityError", "Data too short for metadata", 0)
     ELSE IF compressed_end.overflow
     \* With overflow checks the addition panics; without them compressed_end
     \* wraps to a value below compressed_start, passes the bounds check when
     \* it is at most the length, and the slice start..end panics.
     THEN IF compressed_end.v > ByteLen(all_data)
          THEN Err("IntegrityError", "Invalid compressed size in metadata", 0)
          ELSE Err("Panic", "", 0)
     ELSE IF compressed_end.kind # "small" \/ compressed_end.v > ByteLen(all_data)
     THEN Err("IntegrityError", "Invalid compressed size in metadata", 0)
     ELSE LET data == decompress(Slice(all_data, PartitionMetaSIZE, compressed_end.v),
                                 header.compression)
          IN IF ~data.ok THEN data
             ELSE IF meta.original_size.kind # "small"
                       \/ ByteLen(data.val) # meta.original_size.v
             THEN Err("IntegrityError", "Original size mismatch after decompression", 0)
             ELSE data

extract_partition(all_blocks, secret, header) ==
  LET auth == authenticated_blocks(all_blocks, secret, header)
  IN IF auth = <<>>
     THEN Err("IntegrityError", "No blocks authenticated with this secret", 0)
     ELSE LET sequenced == Vec([k \in 1..Len(auth) |->
                                  [sequence |-> SequenceNumberFromBytes(auth[k].sequence_bytes),
                                   data |-> auth[k].data]])
              transformed_blocks == unsequence_blocks(sequenced)
          IN IF ~transformed_blocks.some
             THEN Err("IntegrityError", "Invalid sequence numbers", 0)
             ELSE RecoverPayload(transformed_blocks.val, header)

(***************************************************************************)
(* Inputs.  Payloads are named by [id, len, zlen]: len bytes of input      *)
(* whose compressed frame is zlen bytes long (payloads are non-empty).     *)
(* Secrets and keys are free generators: random 256-bit draws never        *)
(* collide with one another or with a user's secret.                       *)
(***************************************************************************)
SecretBytes(i) == Source(2, Atom("secret", i, 0, <<>>, <<>>, <<>>))

\* rand::thread_rng().fill_bytes(&mut key): the n-th draw of the run.
KeyDraw(n) == Source(KEY_SIZE, Atom("key", n, 0, <<>>, <<>>, <<>>))

\* The u128 whose low byte is lo and whose other bytes are hi.
U128(hi, lo) == Vec([k \in 1..SEQUENCE_SIZE |-> IF k = SEQUENCE_SIZE THEN lo ELSE hi])

\* generate_sequence_base: any u128.  The draws kept: zero, a value whose run
\* of tags crosses a multiple of 256, and the largest value (the run wraps).
SequenceBases == {U128(0, 0), U128(0, 250), U128(255, 255)}

SmallPayload == [id |-> 1, len |-> 40, zlen |-> 30]

OtherPayload == [id |-> 2, len |-> 100, zlen |-> 60]

Tenants == {[secret |-> 1, payload |-> SmallPayload], [secret |-> 2, payload |-> OtherPayload]}

\* The secrets tried on extraction: the tenants' and one nobody used.
ExtractSecrets == {1, 2, 3}

HeaderWith(block_size, mac_bits, compression, aont, hash) ==
  [VhcHeaderNew(8, 8, 8, block_size, mac_bits).val
     EXCEPT !.compression = compression, !.aont = aont, !.hash = hash]

PipelineHeaders ==
  {HeaderWith(32, 256, "none", "rivest", "sha3"),
   HeaderWith(32, 512, "zstd", "oaep", "blake3")}

MaxPartitions == 2

MaxEdits == 1

NoFile == [exists |-> FALSE, header |-> <<>>, blocks |-> <<>>]

NoResult == [op |-> "none"]

\* One way of laying the new blocks among the old ones.
RECURSIVE Riffle(_, _)
Riffle(a, b) ==
  IF a = <<>> THEN b ELSE IF b = <<>> THEN a
  ELSE <<a[1], b[1]>> \o Riffle(Tail(a), Tail(b))

Arrange(old, new, how) ==
  IF how = "append" THEN old \o new
  ELSE IF how = "prepend" THEN new \o old
  ELSE Riffle(old, new)

Arrangements(old) == IF old = <<>> THEN {"append"} ELSE {"append", "riffle"}

\* The places of a list an edit is tried at: both ends and the middle.
EditPositions(blocks) ==
  IF blocks = <<>> THEN {} ELSE {1, (Len(blocks) + 1) \div 2, Len(blocks)}

RemoveAt(blocks, i) == SubSeq(blocks, 1, i - 1) \o SubSeq(blocks, i + 1, Len(blocks))

\* The tags of the blocks that verify under the secret, in scan order.
VerifiedTags(all_blocks, secret, header) ==
  LET auth == authenticated_blocks(all_blocks, secret, header)
  IN Vec([k \in 1..Len(auth) |-> SequenceNumberFromBytes(auth[k].sequence_bytes)])

(***************************************************************************)
(* The partition pipeline as a state machine: partitions are created into  *)
(* one block list (pool), the list is edited, and an extraction observes   *)
(* it.  ghost.parts records what was created, ghost.edits what was edited. *)
(***************************************************************************)
PartitionInit ==
  /\ file = NoFile
  /\ pool = <<>>
  /\ hdr \in PipelineHeaders
  /\ res = NoResult
  /\ ghost = [parts |-> <<>>, edits |-> <<>>]
  /\ steps = 0

Running == res.op # "extract"

CreatePartition(t, base, how) ==
  /\ Running
  /\ Len(ghost.parts) < MaxPartitions
  /\ ghost.edits = <<>>
  /\ \E r \in {create_partition(DataBytes(t.payload), SecretBytes(t.secret), hdr,
                                 Some(data_blocks_per_partition(hdr)), base, KeyDraw(steps))} :
        /\ pool' = IF r.ok THEN Arrange(pool, r.val, how) ELSE pool
        /\ res' = [op |-> "create", ok |-> r.ok, err |-> r.err,
                   count |-> Len(r.val),
                   sizes |-> LET blocks == r.val IN {ByteLen(blocks[k]) : k \in 1..Len(blocks)}]
        /\ ghost' = IF r.ok
                    THEN [ghost EXCEPT !.parts = Append(@, [secret |-> t.secret,
                                                             payload |-> t.payload,
                                                             base |-> base])]
                    ELSE ghost
  /\ steps' = steps + 1
  /\ UNCHANGED <<file, hdr>>

RemoveBlock(i) ==
  /\ Running
  /\ Len(ghost.edits) < MaxEdits
  /\ pool' = RemoveAt(pool, i)
  /\ ghost' = [ghost EXCEPT !.edits = Append(@, "remove")]
  /\ res' = NoResult
  /\ steps' = steps + 1
  /\ UNCHANGED <<file, hdr>>

ReplayBlock(i) ==
  /\ Running
  /\ Len(ghost.edits) < MaxEdits
  /\ pool' = Append(pool, pool[i])
  /\ ghost' = [ghost EXCEPT !.edits = Append(@, "replay")]
  /\ res' = NoResult
  /\ steps' = steps + 1
  /\ UNCHANGED <<file, hdr>>

ExtractPartition(s) ==
  /\ Running
  /\ res' = [op |-> "extract", secret |-> s,
             tags |-> VerifiedTags(pool, SecretBytes(s), hdr),
             r |-> extract_partition(pool, SecretBytes(s), hdr)]
  /\ steps' = steps + 1
  /\ UNCHANGED <<file, pool, hdr, ghost>>

PartitionNext ==
  \/ \E t \in Tenants, base \in SequenceBases, how \in Arrangements(pool) :
       CreatePartition(t, base, how)
  \/ \E i \in EditPositions(pool) : RemoveBlock(i)
  \/ \E i \in EditPositions(pool) : ReplayBlock(i)
  \/ \E s \in ExtractSecrets : ExtractPartition(s)

SpecPartition == PartitionInit /\ [][PartitionNext]_vars

(***************************************************************************)
(* Properties of the pipeline (checked under SpecPartition)                *)
(***************************************************************************)
Extracted == res.op = "extract"

Unedited == ghost.edits = <<>>

SecretsCreated == {ghost.parts[i].secret : i \in 1..Len(ghost.parts)}

NoBlocksAuthenticated ==
  Err("IntegrityError", "No blocks authenticated with this secret", 0)

InvalidSequenceNumbers == Err("IntegrityError", "Invalid sequence numbers", 0)

\* C1 (round trip): a partition created with pad_to_blocks =
\* data_blocks_per_partition, whatever the header, the payload, the secret,
\* the sequence base and the Rivest key drawn, is extracted again from its own
\* block list under the same secret as Ok(payload).
RoundTrip ==
  (Extracted /\ Unedited /\ Len(ghost.parts) = 1 /\ res.secret = ghost.parts[1].secret)
    => res.r = Ok(DataBytes(ghost.parts[1].payload))

\* C2 (multi-tenant isolation): with two partitions of distinct secrets in the
\* list, laid out in any order, extraction under either secret returns that
\* secret's payload and extraction under a third secret is an integrity error.
TenantIsolation ==
  (Extracted /\ Unedited /\ Len(ghost.parts) = 2
     /\ ghost.parts[1].secret # ghost.parts[2].secret)
    => /\ \A i \in 1..2 :
            res.secret = ghost.parts[i].secret
              => res.r = Ok(DataBytes(ghost.parts[i].payload))
       /\ res.secret \notin SecretsCreated
            => (~res.r.ok /\ res.r.err = "IntegrityError")

\* C4 (fixed contribution): every successful create padded to
\* data_blocks_per_partition returns exactly blocks_per_partition blocks for
\* both transforms and every payload length, each 16 + block_size + mac_bits/8
\* bytes long.
FixedContribution ==
  (res.op = "create" /\ res.ok)
    => /\ res.count = hdr.blocks_per_partition
       /\ res.sizes = {SEQUENCE_SIZE + hdr.block_size + hdr.mac_bits \div 8}

FixedContributionWitness ==
  /\ res.op = "create"
  /\ res.ok
  /\ hdr.aont = "rivest"
  /\ res.count = 8
  /\ res.sizes = {80}
  /\ Len(ghost.parts) = 2
  /\ ghost.parts[1].payload.len # ghost.parts[2].payload.len

\* C8 (wrong-secret indistinguishability): extraction under a secret no
\* partition of the list was created with returns one and the same error
\* value, 'No blocks authenticated with this secret', whether the list is
\* empty, holds one partition or two, edited or not.
WrongSecretError ==
  (Extracted /\ res.secret \notin SecretsCreated) => res.r = NoBlocksAuthenticated

WrongSecretWitness ==
  /\ Extracted
  /\ res.secret \notin SecretsCreated
  /\ Len(ghost.parts) = 2
  /\ Len(pool) = 16
  /\ res.r = NoBlocksAuthenticated

\* The tags are one run base, base+1, ..., base+m-1 (mod 2^128), each once.
IsRun(tags) ==
  \E b \in 1..Len(tags) :
    LET values == {to_u128(tags[k]) : k \in 1..Len(tags)}
    IN /\ Cardinality(values) = Len(tags)
       /\ values = {wrapping_add(to_u128(tags[b]), i) : i \in 0..(Len(tags) - 1)}

\* C9 (sequence contiguity): extraction succeeds only if the tags of the
\* MAC-verified blocks form a single run with no gap and no duplicate; for
\* every other non-empty verified set (a removed middle block, a replayed
\* block, two separate runs) the result is 'Invalid sequence numbers'.
ContiguousOrInvalid ==
  (Extracted /\ res.tags # <<>>)
    => /\ res.r.ok => IsRun(res.tags)
       /\ ~IsRun(res.tags) => res.r = InvalidSequenceNumbers

ContiguousOrInvalidWitness ==
  /\ Extracted
  /\ ghost.edits = <<"replay">>
  /\ Len(res.tags) = 9
  /\ ~IsRun(res.tags)
  /\ res.r = InvalidSequenceNumbers

(***************************************************************************)
(* Corruption of one block.  A flipped bit of the tag is computed on the   *)
(* tag's digits; a flipped bit of the payload or the MAC is the XOR of a   *)
(* non-zero constant into symbolic bytes.                                  *)
(***************************************************************************)
BitMasks == {1, 128}

\* d XOR mask for a byte d and a one-bit mask.
BitFlip(d, mask) == IF (d \div mask) % 2 = 1 THEN d - mask ELSE d + mask

FlipConstant(mask) == Source(1, Atom("bit", mask, 0, <<>>, <<>>, <<>>))

\* bytes[pos] ^= mask.
FlipAt(bytes, pos, mask) ==
  IF IsTag(bytes)
  THEN TagBytes([SequenceNumberFromBytes(bytes) EXCEPT ![pos + 1] = BitFlip(@, mask)])
  ELSE Concat(Concat(Slice(bytes, 0, pos),
                     xor_in_place(Slice(bytes, pos, pos + 1), FlipConstant(mask))),
              Slice(bytes, pos + 1, ByteLen(bytes)))

\* One bit of the block flipped, in the first byte of the region (mask 1) or
\* in its last byte (mask 128).
FlipRegion(block, region, mask, header) ==
  LET b == ParseBlock(block, header.block_size)
      at(bytes) == IF mask = 1 THEN 0 ELSE ByteLen(bytes) - 1
  IN SerializeBlock(
       IF region = "tag" THEN [b EXCEPT !.sequence_bytes = FlipAt(@, at(@), mask)]
       ELSE IF region = "data" THEN [b EXCEPT !.data = FlipAt(@, at(@), mask)]
       ELSE [b EXCEPT !.mac = FlipAt(@, at(@), mask)])

Regions == {"tag", "data", "mac"}

TamperHeaders ==
  PipelineHeaders \cup {HeaderWith(36, 128, "zstd", "rivest", "sha256")}

TamperInit ==
  /\ file = NoFile
  /\ pool = <<>>
  /\ hdr \in TamperHeaders
  /\ res = NoResult
  /\ ghost = [parts |-> <<>>, edits |-> <<>>]
  /\ steps = 0

CorruptBlock(i, region, mask) ==
  /\ Running
  /\ Len(ghost.edits) < MaxEdits
  /\ pool' = [pool EXCEPT ![i] = FlipRegion(@, region, mask, hdr)]
  /\ ghost' = [ghost EXCEPT !.edits = Append(@, region)]
  /\ res' = NoResult
  /\ steps' = steps + 1
  /\ UNCHANGED <<file, hdr>>

\* One partition is created, one of its blocks is corrupted or removed, and
\* an extraction observes the list.
TamperNext ==
  \/ \E t \in Tenants, base \in SequenceBases :
       pool = <<>> /\ CreatePartition(t, base, "append")
  \/ \E i \in 1..Len(pool), region \in Regions, mask \in BitMasks :
       CorruptBlock(i, region, mask)
  \/ \E i \in 1..Len(pool) : RemoveBlock(i)
  \/ \E s \in ExtractSecrets : ExtractPartition(s)

SpecTamper == TamperInit /\ [][TamperNext]_vars

\* C3 (all-or-nothing): when one block of a partition has one bit flipped (in
\* its tag, its payload or its MAC) or is missing from the list, extraction
\* under the partition's secret is an error: no payload is returned, neither
\* the original nor another one.
AllOrNothing ==
  (Extracted /\ Len(ghost.edits) = 1 /\ res.secret \in SecretsCreated) => ~res.r.ok

\* A payload bit of the first block flipped: the block fails its MAC, the
\* other blocks still form a run, and the inverse transform yields no metadata.
AllOrNothingWitness ==
  /\ Extracted
  /\ ghost.edits = <<"data">>
  /\ res.secret \in SecretsCreated
  /\ Len(res.tags) = 7
  /\ IsRun(res.tags)
  /\ res.r = Err("IntegrityError", "Invalid compressed size in metadata", 0)

(***************************************************************************)
(* The container file (hypercube/src/vhc.rs).  The file on disk is magic,  *)
(* header length, header JSON and the blocks end to end; every block       *)
(* written is total_block_size bytes long, so the data section is kept as  *)
(* the list of the blocks written.                                         *)
(***************************************************************************)
IoError == Err("Io", "No such file or directory", 0)

RECURSIVE DataLenRange(_, _, _)
DataLenRange(blocks, lo, hi) ==
  IF lo > hi THEN 0
  ELSE IF lo = hi THEN ByteLen(blocks[lo])
  ELSE DataLenRange(blocks, lo, (lo + hi) \div 2)
         + DataLenRange(blocks, (lo + hi) \div 2 + 1, hi)

\* file_len - data_start.
DataSize(f) == DataLenRange(f.blocks, 1, Len(f.blocks))

write_vhc_file(header, blocks) == [exists |-> TRUE, header |-> header, blocks |-> blocks]

read_vhc_header(f) == IF f.exists THEN Ok(f.header) ELSE IoError

get_block_count(f) ==
  IF f.exists THEN Ok(DataSize(f) \div total_block_size(f.header)) ELSE IoError

\* The blocks read back: num_blocks chunks of total_block_size bytes.
\* An existing file of zero bytes has no magic to read (UnexpectedEof).
read_vhc_file(f) ==
  IF f.exists /\ f.header # <<>>
  THEN Ok([header |-> f.header,
           blocks |-> SubSeq(f.blocks, 1, DataSize(f) \div total_block_size(f.header))])
  ELSE IoError

\* blocks.shuffle(&mut rng): the permutations kept are the identity and the
\* reversal.
Shuffles == {"keep", "reverse"}

Shuffle(blocks, how) == IF how = "reverse" THEN Reverse(blocks) ELSE blocks

\* A variant of append_blocks_to_vhc that writes the new blocks over the old.
append_blocks_overwrites(f, new_blocks, how) ==
  IF new_blocks = <<>> THEN [file |-> f, r |-> Ok(<<>>)]
  ELSE LET vhc == read_vhc_file(f)
       IN IF ~vhc.ok THEN [file |-> f, r |-> vhc]
          ELSE [file |-> write_vhc_file(vhc.val.header,
                                        IF Len(new_blocks) > 1 THEN Shuffle(new_blocks, how)
                                        ELSE new_blocks),
                r |-> Ok(<<>>)]

\* A variant of append_blocks_to_vhc without the early return on an empty list.
append_blocks_always_rewrites(f, new_blocks, how) ==
  LET vhc == read_vhc_file(f)
  IN IF ~vhc.ok THEN [file |-> f, r |-> vhc]
     ELSE LET blocks == vhc.val.blocks \o new_blocks
          IN [file |-> write_vhc_file(vhc.val.header,
                                      IF Len(blocks) > 1 THEN Shuffle(blocks, how)
                                      ELSE blocks),
              r |-> Ok(<<>>)]

\* Returns [file, r]: the file afterwards and the Result.
append_blocks_to_vhc(f, new_blocks, how) ==
  IF new_blocks = <<>> THEN [file |-> f, r |-> Ok(<<>>)]
  ELSE LET vhc == read_vhc_file(f)
       IN IF ~vhc.ok THEN [file |-> f, r |-> vhc]
          ELSE LET blocks == vhc.val.blocks \o new_blocks
               IN [file |-> write_vhc_file(vhc.val.header,
                                           IF Len(blocks) > 1 THEN Shuffle(blocks, how)
                                           ELSE blocks),
                   r |-> Ok(<<>>)]

(***************************************************************************)
(* seal_file (hypercube/src/cli/seal.rs).  A draw is [n, base, how]: the   *)
(* number of the operation (it names the fresh random values), the         *)
(* sequence base and the shuffle.  Random chaff does not compress: its     *)
(* frame is the data and what the backend's format adds to stored data.    *)
(***************************************************************************)
\* lz4_flex::compress_prepend_size on data without matches: the u32 length,
\* then one sequence of literals, i.e. a token, the length bytes the LZ4
\* block format spends on a run of len literals (one for every 255 literals
\* from the 15th on), and the literals.
Lz4StoredLen(len) == 4 + 1 + (IF len >= 15 THEN (len - 15) \div 255 + 1 ELSE 0) + len

\* The other backends store such data behind a frame header.
IncompressibleFrameLen(len, algorithm) ==
  IF algorithm = "lz4" THEN Lz4StoredLen(len) ELSE len + 13

ChaffPayload(n, len, algorithm) ==
  [id |-> 100 + n, len |-> len, zlen |-> IncompressibleFrameLen(len, algorithm)]

ChaffSecret(n) == Source(32, Atom("chaff_secret", n, 0, <<>>, <<>>, <<>>))

\* The k-th chaff partition of operation n has its own data, secret and key.
ChaffDraw(n, k) == 100 * (n + 1) + k

\* A variant of the loop of seal_file that stops after one chaff partition.
SealLoopOnce(header, remaining, new_blocks, k, draw) ==
  LET data_blocks == data_blocks_per_partition(header)
      chunk_bytes == Max(1, header.block_size * data_blocks - (PartitionMetaSIZE + 64))
      partition == create_partition(DataBytes(ChaffPayload(ChaffDraw(draw.n, k), chunk_bytes,
                                                           header.compression)),
                                    ChaffSecret(ChaffDraw(draw.n, k)), header,
                                    Some(data_blocks), draw.base,
                                    KeyDraw(ChaffDraw(draw.n, k)))
  IN IF ~partition.ok THEN partition
     ELSE Ok(SubSeq(partition.val, 1, Min(remaining, Len(partition.val))))

\* The while loop of seal_file from its k-th iteration on: Ok(new_blocks), or
\* the error of create_partition.
RECURSIVE SealLoop(_, _, _, _, _)
SealLoop(header, remaining, new_blocks, k, draw) ==
  IF remaining <= 0 THEN Ok(new_blocks)
  ELSE LET data_blocks == data_blocks_per_partition(header)
           max_payload == header.block_size * data_blocks
           data_size == Max(max_payload - (PartitionMetaSIZE + 64), 0)
           chunk_bytes == Max(1, data_size)
           c == ChaffDraw(draw.n, k)
           partition == create_partition(DataBytes(ChaffPayload(c, chunk_bytes, header.compression)),
                                         ChaffSecret(c), header, Some(data_blocks),
                                         draw.base, KeyDraw(c))
       IN The({IF ~p.ok THEN p
               ELSE LET produced == Len(p.val)
                        take == Min(remaining, produced)
                    IN The({SealLoop(header, s.remaining, s.new_blocks, k + 1, draw) :
                              s \in {[remaining |-> remaining - take,
                                      new_blocks |-> new_blocks \o SubSeq(p.val, 1, take)]}}) :
               p \in {partition}})

seal_file(f, draw) ==
  LET header == read_vhc_header(f)
      current_blocks == get_block_count(f)
  IN IF ~header.ok THEN [file |-> f, r |-> header]
     ELSE LET capacity == theoretical_block_count(header.val)
          IN IF capacity = 0 THEN [file |-> f, r |-> Ok(0)]
             ELSE IF current_blocks.val > capacity
             THEN [file |-> f, r |-> Err("FileFull", "", capacity)]
             ELSE IF current_blocks.val = capacity THEN [file |-> f, r |-> Ok(0)]
             ELSE The({IF ~new_blocks.ok THEN [file |-> f, r |-> new_blocks]
                       ELSE The({IF ~a.r.ok THEN a
                                 ELSE [file |-> a.file, r |-> Ok(Len(new_blocks.val))] :
                                 a \in {append_blocks_to_vhc(f, new_blocks.val, draw.how)}}) :
                       new_blocks \in {SealLoop(header.val, capacity - current_blocks.val,
                                                <<>>, 0, draw)}})

(***************************************************************************)
(* add_partition (hypercube/src/cli/add.rs) and extract_from_vhc           *)
(* (hypercube/src/cli/extract.rs)                                          *)
(***************************************************************************)
required_block_size(payload_bytes, blocks) ==
  LET b == Max(blocks, 1)
  IN Max((payload_bytes + b - 1) \div b, 1)

\* analyze_data(...).block_size_bytes.
analyze_data(data, compression, blocks_per_partition) ==
  LET payload_bytes == PartitionMetaSIZE + ByteLen(compress(data, compression))
      data_blocks == Max(Max(blocks_per_partition - 1, 0), 1)
  IN required_block_size(payload_bytes, data_blocks)

\* add_partition from append_blocks_to_vhc on: the append, then the seal that
\* options.seal asks for.
AppendAndSeal(f, blocks, options, draw) ==
  The({IF ~a.r.ok THEN a
       ELSE IF options.seal
       THEN The({IF ~sealed.r.ok THEN sealed
                 ELSE [file |-> sealed.file, r |-> Ok(Len(blocks))] :
                 sealed \in {seal_file(a.file, draw)}})
       ELSE [file |-> a.file, r |-> Ok(Len(blocks))] :
       a \in {append_blocks_to_vhc(f, blocks, draw.how)}})

\* A variant of AddToContainer without the capacity check.
AddToContainerUnchecked(f, header, current_blocks, data, options, draw) ==
  LET result == create_partition(data, options.secret, header,
                                 Some(data_blocks_per_partition(header)),
                                 draw.base, KeyDraw(draw.n))
  IN IF ~result.ok THEN [file |-> f, r |-> result]
     ELSE AppendAndSeal(f, result.val, options, draw)

\* A variant of AddToContainer that appends first and checks the capacity after.
AddToContainerLateCheck(f, header, current_blocks, data, options, draw) ==
  LET capacity == theoretical_block_count(header)
      result == create_partition(data, options.secret, header,
                                 Some(data_blocks_per_partition(header)),
                                 draw.base, KeyDraw(draw.n))
  IN IF ~result.ok THEN [file |-> f, r |-> result]
     ELSE LET a == append_blocks_to_vhc(f, result.val, draw.how)
          IN IF Len(result.val) > Max(capacity - current_blocks, 0)
             THEN [file |-> a.file, r |-> Err("FileFull", "", capacity)]
             ELSE AppendAndSeal(f, result.val, options, draw)

\* add_partition from "let capacity = ..." on.
AddToContainer(f, header, current_blocks, data, options, draw) ==
  LET capacity == theoretical_block_count(header)
  IN The({IF ~result.ok THEN [file |-> f, r |-> result]
          ELSE LET block_count == Len(result.val)
                   remaining == Max(capacity - current_blocks, 0)
               IN IF block_count > remaining
                  THEN [file |-> f, r |-> Err("FileFull", "", capacity)]
                  ELSE AppendAndSeal(f, result.val, options, draw) :
          result \in {create_partition(data, options.secret, header,
                                       Some(data_blocks_per_partition(header)),
                                       draw.base, KeyDraw(draw.n))}})

add_partition(f, data, options, draw) ==
  IF f.exists
  THEN LET header == f.header
           blocks == get_block_count(f).val
           payload_size == PartitionMetaSIZE + ByteLen(compress(data, header.compression))
           max_payload == header.block_size * data_blocks_per_partition(header)
       IN IF payload_size > max_payload
          THEN [file |-> f, r |-> Err("DataTooLarge", "", <<payload_size, max_payload>>)]
          ELSE AddToContainer(f, header, blocks, data, options, draw)
  ELSE IF options.dimension < 8 \/ options.dimension % 8 # 0
  THEN [file |-> f, r |-> Err("InvalidDimension", "", options.dimension)]
  ELSE LET analysed == analyze_data(data, options.compression, options.dimension)
           at_least == IF analysed < 32 THEN 32 ELSE analysed
           block_bytes == IF at_least % 2 # 0 THEN at_least + 1 ELSE at_least
           new == VhcHeaderNew(options.dimension, options.dimension, options.dimension,
                               block_bytes, options.mac_bits)
       IN IF ~new.ok THEN [file |-> f, r |-> new]
          ELSE LET header == [new.val EXCEPT !.compression = options.compression,
                                             !.aont = options.aont,
                                             !.hash = options.hash]
               IN AddToContainer(write_vhc_file(header, <<>>), header, 0, data, options, draw)

\* Returns [r, written]: the Result (blocks_used) and the data written to the
\* output path.
extract_from_vhc(f, secret) ==
  LET vhc == read_vhc_file(f)
  IN IF ~vhc.ok THEN [r |-> vhc, written |-> None]
     ELSE The({IF ~data.ok THEN [r |-> data, written |-> None]
               ELSE [r |-> Ok(ByteLen(data.val) \div vhc.val.header.block_size + 1),
                     written |-> Some(data.val)] :
               data \in {extract_partition(vhc.val.blocks, secret, vhc.val.header)}})

(***************************************************************************)
(* The container as a state machine.  ghost.log is the list of the         *)
(* operations run, with their outcome; ghost.added the partitions added.   *)
(***************************************************************************)
MaxOps == 2

LargePayload == [id |-> 3, len |-> 300, zlen |-> 250]

\* What the two users add: a payload that fits a 32-byte block cube and one
\* that needs larger blocks.
Additions == {[secret |-> 1, payload |-> SmallPayload], [secret |-> 2, payload |-> LargePayload]}

\* The options a new container is created with (existing containers ignore
\* them, except seal).
Presets ==
  {[dimension |-> 8, mac_bits |-> 256, compression |-> "none", aont |-> "rivest", hash |-> "sha3"],
   [dimension |-> 8, mac_bits |-> 512, compression |-> "zstd", aont |-> "oaep", hash |-> "blake3"]}

PresetsFor(f) ==
  IF f.exists THEN {CHOOSE o \in Presets : o.aont = f.header.aont} ELSE Presets

AddOptions(preset, secret, seal) ==
  [secret |-> SecretBytes(secret), compression |-> preset.compression, aont |-> preset.aont,
   hash |-> preset.hash, dimension |-> preset.dimension, mac_bits |-> preset.mac_bits,
   seal |-> seal]

\* The random draws of one operation: a sequence base and a shuffle.
Draws ==
  {[base |-> U128(0, 0), how |-> "keep"], [base |-> U128(0, 250), how |-> "reverse"],
   [base |-> U128(0, 8), how |-> "keep"]}

DrawOf(d) == [n |-> steps, base |-> d.base, how |-> d.how]

Init ==
  /\ file = NoFile
  /\ pool = <<>>
  /\ hdr = <<>>
  /\ res = NoResult
  /\ ghost = [log |-> <<>>, added |-> <<>>]
  /\ steps = 0

Logged(op, r) == [ghost EXCEPT !.log = Append(@, [op |-> op, ok |-> r.ok])]

AddPartition(a, preset, seal, d) ==
  /\ Running
  /\ steps < MaxOps
  /\ \E out \in {add_partition(file, DataBytes(a.payload),
                              AddOptions(preset, a.secret, seal), DrawOf(d))} :
        /\ file' = out.file
        /\ res' = [op |-> "add", secret |-> a.secret, payload |-> a.payload, seal |-> seal,
                   r |-> out.r]
        /\ ghost' = [Logged("add", out.r) EXCEPT
                       !.added = IF out.r.ok THEN Append(@, a) ELSE @]
  /\ steps' = steps + 1
  /\ UNCHANGED <<pool, hdr>>

SealFile(d) ==
  /\ Running
  /\ steps < MaxOps
  /\ \E out \in {seal_file(file, DrawOf(d))} :
        /\ file' = out.file
        /\ res' = [op |-> "seal", r |-> out.r]
        /\ ghost' = Logged("seal", out.r)
  /\ steps' = steps + 1
  /\ UNCHANGED <<pool, hdr>>

\* append_blocks_to_vhc(path, &[]).
AppendNothing ==
  /\ Running
  /\ steps < MaxOps
  /\ \E how \in Shuffles : \E out \in {append_blocks_to_vhc(file, <<>>, how)} :
        /\ file' = out.file
        /\ res' = [op |-> "append", r |-> out.r]
        /\ ghost' = Logged("append", out.r)
  /\ steps' = steps + 1
  /\ UNCHANGED <<pool, hdr>>

ExtractFromVhc(s) ==
  /\ Running
  /\ \E out \in {extract_from_vhc(file, SecretBytes(s))} :
        /\ res' = [op |-> "extract", secret |-> s, r |-> out.r, written |-> out.written]
        /\ ghost' = Logged("extract", out.r)
  /\ steps' = steps + 1
  /\ UNCHANGED <<file, pool, hdr>>

Next ==
  \/ \E a \in Additions, preset \in PresetsFor(file), seal \in BOOLEAN, d \in Draws :
       AddPartition(a, preset, seal, d)
  \/ \E d \in Draws : SealFile(d)
  \/ AppendNothing
  \/ \E s \in ExtractSecrets : ExtractFromVhc(s)

Spec == Init /\ [][Next]_vars

(***************************************************************************)
(* Properties of the container (checked under Spec)                        *)
(***************************************************************************)
BlockCount(f) == get_block_count(f).val

Capacity(f) == theoretical_block_count(f.header)

\* 16 + |compressed| <= block_size x data_blocks_per_partition.
Fits(payload, header) ==
  PartitionMetaSIZE + (IF header.compression = "none" THEN payload.len ELSE payload.zlen)
    <= header.block_size * data_blocks_per_partition(header)

Stepped(op) == steps' = steps + 1 /\ res'.op = op

\* One step of the container against its capacity.
CapacityStep ==
  /\ file'.exists => BlockCount(file') <= Capacity(file')
  /\ (Stepped("add") /\ file.exists /\ Fits(res'.payload, file.header)
        /\ BlockCount(file) + file.header.blocks_per_partition > Capacity(file))
       => (res'.r = Err("FileFull", "", Capacity(file)) /\ file' = file)

\* C5 (capacity): the container never holds more than C = dimension x
\* blocks_per_partition blocks, and an add_partition of a payload that fits,
\* whose blocks_per_partition new blocks would exceed C, returns FileFull(C)
\* and appends nothing.
CapacityRespected == [][CapacityStep]_vars

CapacityRespectedWitness ==
  /\ res.op = "add"
  /\ file.exists
  /\ BlockCount(file) = 64
  /\ Fits(res.payload, file.header)
  /\ res.r = Err("FileFull", "", 64)

\* One seal_file step.
SealStep ==
  (Stepped("seal") /\ file.exists /\ BlockCount(file) <= Capacity(file))
    => /\ file'.exists
       /\ BlockCount(file') = Capacity(file)
       /\ res'.r = Ok(Capacity(file) - BlockCount(file))
       /\ BlockCount(file) = Capacity(file) => file' = file

AddedWith(s) == {i \in 1..Len(ghost.added) : ghost.added[i].secret = s}

\* C7 (durable recoverability): once add_partition with a secret has
\* succeeded, and whatever successful empty appends, adds under other secrets
\* and seals follow, extraction under that secret writes the payload added.
DurableRecovery ==
  (Extracted /\ Cardinality(AddedWith(res.secret)) = 1
     /\ \A k \in 1..(Len(ghost.log) - 1) : ghost.log[k].ok)
    => /\ res.written.some
       /\ res.written.val = DataBytes(ghost.added[CHOOSE i \in AddedWith(res.secret) : TRUE].payload)

\* One add_partition step that fails with a capacity error.
CapacityErrorStep ==
  (Stepped("add") /\ file.exists /\ ~res'.r.ok /\ res'.r.err \in {"DataTooLarge", "FileFull"})
    => file' = file

\* C10 (capacity errors precede writes): an add_partition on an existing
\* container that fails with DataTooLarge or FileFull leaves the file as it was.
CapacityErrorsLeaveFile == [][CapacityErrorStep]_vars

CapacityErrorsLeaveFileWitness ==
  /\ res.op = "add"
  /\ file.exists
  /\ BlockCount(file) = 8
  /\ ~Fits(res.payload, file.header)
  /\ res.r = Err("DataTooLarge", "", <<316, 224>>)

\* One step of a container to which a secret adds a second partition.
SharedSecretStep ==
  /\ (Stepped("add") /\ file.exists /\ AddedWith(res'.secret) # {}
        /\ Fits(res'.payload, file.header)
        /\ BlockCount(file) + file.header.blocks_per_partition <= Capacity(file))
       => /\ res'.r = Ok(file.header.blocks_per_partition)
          /\ Len(ghost'.added) = Len(ghost.added) + 1
          /\ BlockCount(file') >= BlockCount(file) + file.header.blocks_per_partition
  /\ (Stepped("extract") /\ Cardinality(AddedWith(res'.secret)) = 2)
       => /\ Len(authenticated_blocks(file.blocks, SecretBytes(res'.secret), file.header))
               = 2 * file.header.blocks_per_partition
          /\ ~res'.r.ok
          /\ res'.r.err = "IntegrityError"
          /\ ~res'.written.some

\* C28 (one secret, two partitions): add_partition does not reject a secret
\* that already owns a partition; after two successful add_partition calls
\* with the same secret, extraction with that secret authenticates the blocks
\* of both partitions and returns an integrity error, writing neither payload.
SharedSecretUnrecoverable == [][SharedSecretStep]_vars

SharedSecretUnrecoverableWitness ==
  /\ res.op = "extract"
  /\ Cardinality(AddedWith(res.secret)) = 2
  /\ ghost.log = <<[op |-> "add", ok |-> TRUE], [op |-> "add", ok |-> TRUE],
                   [op |-> "extract", ok |-> FALSE]>>
  /\ res.r.err = "IntegrityError"
  /\ BlockCount(file) = 16

\* One step of a container that only add_partition and seal_file write to.
WholePartitionsStep ==
  /\ file'.exists => BlockCount(file') % file'.header.blocks_per_partition = 0
  /\ (Stepped("add") /\ res'.r.ok)
       => /\ res'.r.val = file'.header.blocks_per_partition
          /\ BlockCount(file')
               = IF res'.seal THEN Capacity(file')
                 ELSE (IF file.exists THEN BlockCount(file) ELSE 0)
                        + file'.header.blocks_per_partition
  /\ (Stepped("seal") /\ file.exists)
       => /\ (Capacity(file) - BlockCount(file)) % file.header.blocks_per_partition = 0
          /\ res'.r = Ok(Capacity(file) - BlockCount(file))
          /\ BlockCount(file') = file.header.blocks_per_partition * file.header.dimension

CubeIds == {1, 8, 16}

Dimensions == {0, 7, 8, 12, 16}

BlockSizes == {0, 30, 31, 32, 33, 64}

MacBitsDrawn == {0, 128, 256, 384, 512}

\* The headers the calls run under: T = 7 x 32 = 224 for the first, T = 8 x 32
\* = 256 for the second.
CallHeaders ==
  {HeaderWith(32, 256, "none", "rivest", "sha3"),
   HeaderWith(32, 512, "zstd", "oaep", "blake3")}

\* Payloads on both sides of T: under the first header 16 + 208 = T and
\* 16 + 209 > T, under the second 16 + 240 = T and 16 + 241 > T.
CallPayloads ==
  {[id |-> 1, len |-> 40, zlen |-> 30],
   [id |-> 2, len |-> 208, zlen |-> 100],
   [id |-> 3, len |-> 209, zlen |-> 240],
   [id |-> 4, len |-> 300, zlen |-> 241]}

\* Secret 0 is the empty string (AddOptions::default().secret).
CallSecrets == {0, 1}

SecretOf(i) == IF i = 0 THEN <<>> ELSE SecretBytes(i)

\* The header of the file with another compression field (the header is
\* stored in plaintext and is not covered by any MAC).
OtherCompression(h) == [h EXCEPT !.compression = IF @ = "none" THEN "zstd" ELSE "none"]

CallsInit ==
  /\ file = NoFile
  /\ pool = <<>>
  /\ hdr = <<>>
  /\ res = NoResult
  /\ ghost = <<>>
  /\ steps = 0

\* VhcHeader::new(cube_id, partitions, blocks_per_partition, block_size, mac_bits).
CallNew(cube_id, partitions, blocks_per_partition, block_size, mac_bits) ==
  /\ steps = 0
  /\ res' = [op |-> "new", cube_id |-> cube_id, partitions |-> partitions,
             blocks_per_partition |-> blocks_per_partition, block_size |-> block_size,
             mac_bits |-> mac_bits,
             r |-> VhcHeaderNew(cube_id, partitions, blocks_per_partition, block_size,
                                mac_bits)]
  /\ steps' = steps + 1
  /\ UNCHANGED <<file, pool, hdr, ghost>>

\* create_partition(data, secret, header, Some(data_blocks_per_partition)).
CallCreate(p, h, s) ==
  /\ steps = 0
  /\ \E r \in {create_partition(DataBytes(p), SecretOf(s), h,
                                 Some(data_blocks_per_partition(h)), U128(0, 0), KeyDraw(0))} :
        /\ pool' = r.val
        /\ res' = [op |-> "create", payload |-> p, secret |-> s,
                   r |-> [r EXCEPT !.val = <<>>], count |-> Len(r.val)]
  /\ hdr' = h
  /\ steps' = steps + 1
  /\ UNCHANGED <<file, ghost>>

\* extract_partition(blocks, secret, header) on the blocks just created,
\* under the header they were created with or its variant.
CallExtract(other, s) ==
  /\ res.op = "create"
  /\ pool # <<>>
  /\ \E h \in {IF other THEN OtherCompression(hdr) ELSE hdr} :
        res' = [op |-> "extract", secret |-> s, header |-> h, created |-> res,
                verified |-> Len(authenticated_blocks(pool, SecretOf(s), h)),
                r |-> extract_partition(pool, SecretOf(s), h)]
  /\ steps' = steps + 1
  /\ UNCHANGED <<file, pool, hdr, ghost>>

(***************************************************************************)
(* The bytes of a container (hypercube/src/vhc.rs, header.rs).  The header *)
(* is a JSON object, modelled as the sequence of its members in struct     *)
(* order: a number is its decimal digits, an enum its lowercase name.      *)
(***************************************************************************)
HeaderFields ==
  <<"version", "cube_id", "dimension", "blocks_per_partition", "block_size",
    "mac_bits", "compression", "aont", "hash", "fragment_size">>

\* #[serde(rename_all = "lowercase")] on Compression, Aont, HashAlgorithm.
Variants(key) ==
  CASE key = "compression" -> {"zstd", "lz4", "brotli", "none"}
    [] key = "aont" -> {"rivest", "oaep"}
    [] key = "hash" -> {"sha3", "blake3", "sha256"}
    [] OTHER -> {}

IsEnumField(key) == Variants(key) # {}

\* The number of bytes of a key or of a variant name.
StrLen(str) ==
  CASE str \in {"aont", "hash", "zstd", "none", "oaep", "sha3"} -> 4
    [] str = "lz4" -> 3
    [] str \in {"brotli", "rivest", "blake3", "sha256"} -> 6
    [] str \in {"version", "cube_id"} -> 7
    [] str = "mac_bits" -> 8
    [] str = "dimension" -> 9
    [] str = "block_size" -> 10
    [] str = "compression" -> 11
    [] str = "fragment_size" -> 13
    [] str = "blocks_per_partition" -> 20

\* itoa: the decimal digits of n, most significant first.
RECURSIVE Digits(_)
Digits(n) == IF n < 10 THEN <<n>> ELSE Append(Digits(n \div 10), n % 10)

RECURSIVE ParseDigits(_, _)
ParseDigits(d, k) == IF k = 0 THEN 0 ELSE 10 * ParseDigits(d, k - 1) + d[k]

\* serde_json::to_vec(header).
to_bytes(h) ==
  Vec([i \in 1..Len(HeaderFields) |->
         LET key == HeaderFields[i]
         IN [key |-> key,
             text |-> IF IsEnumField(key) THEN <<h[key]>> ELSE Digits(h[key])]])

\* The length of the JSON text: braces, commas, quoted keys, colons, values.
RECURSIVE JsonLenFrom(_, _)
JsonLenFrom(json, k) ==
  IF k > Len(json) THEN 0
  ELSE LET m == json[k]
       IN StrLen(m.key) + 3
            + (IF IsEnumField(m.key) THEN StrLen(m.text[1]) + 2 ELSE Len(m.text))
            + (IF k < Len(json) THEN 1 ELSE 0)
            + JsonLenFrom(json, k + 1)

JsonLen(json) == 2 + JsonLenFrom(json, 1)

\* serde_json::from_slice: every field of the struct is looked up by its
\* key; an unknown variant or a missing field is an error.
from_bytes(json) ==
  LET Members(key) == {k \in 1..Len(json) : json[k].key = key}
      Valid(key) ==
        /\ Cardinality(Members(key)) = 1
        /\ IsEnumField(key) => json[The(Members(key))].text[1] \in Variants(key)
      Value(key) ==
        LET text == json[The(Members(key))].text
        IN IF IsEnumField(key) THEN text[1] ELSE ParseDigits(text, Len(text))
  IN IF \E i \in 1..Len(HeaderFields) : ~Valid(HeaderFields[i])
     THEN Err("SerializationError", "", 0)
     ELSE Ok([key \in {HeaderFields[i] : i \in 1..Len(HeaderFields)} |-> Value(key)])

VHC_MAGIC == <<"V", "H", "C", 1>>

\* u32::to_le_bytes and u32::from_le_bytes.
u32_to_le_bytes(n) ==
  <<n % 256, (n \div 256) % 256, (n \div 65536) % 256, (n \div 16777216) % 256>>

u32_from_le_bytes(b) == b[1] + 256 * b[2] + 65536 * b[3] + 16777216 * b[4]

\* The bytes write_vhc_file puts on disk: magic, header length, header JSON,
\* then the blocks end to end.
write_vhc_bytes(header, blocks) ==
  LET header_bytes == to_bytes(header)
  IN [magic |-> VHC_MAGIC,
      header_len |-> u32_to_le_bytes(JsonLen(header_bytes)),
      header |-> header_bytes,
      data |-> ConcatAll(blocks)]

FileLen(img) == 4 + 4 + JsonLen(img.header) + ByteLen(img.data)

\* The header and the number of whole blocks of an image.
ReadLayout(img) ==
  IF img.magic # VHC_MAGIC THEN Err("InvalidFormat", "Invalid VHC magic bytes", 0)
  ELSE LET header_len == u32_from_le_bytes(img.header_len)
       IN IF header_len # JsonLen(img.header) THEN Err("SerializationError", "", 0)
          ELSE LET header == from_bytes(img.header)
               IN IF ~header.ok THEN header
                  ELSE LET data_start == 4 + 4 + header_len
                           data_size == FileLen(img) - data_start
                           block_size == total_block_size(header.val)
                       IN Ok([header |-> header.val, block_size |-> block_size,
                              num_blocks |-> data_size \div block_size])

\* read_vhc_file on the bytes: num_blocks chunks of total_block_size bytes.
read_vhc_bytes(img) ==
  LET layout == ReadLayout(img)
  IN IF ~layout.ok THEN layout
     ELSE LET l == layout.val
          IN Ok([header |-> l.header,
                 blocks |-> Vec([i \in 1..l.num_blocks |->
                                   Slice(img.data, (i - 1) * l.block_size, i * l.block_size)])])

\* get_block_count on the bytes.
get_block_count_bytes(img) ==
  LET layout == ReadLayout(img)
  IN IF ~layout.ok THEN layout ELSE Ok(layout.val.num_blocks)

\* read_vhc_header on the bytes.
read_vhc_header_bytes(img) ==
  IF img.magic # VHC_MAGIC THEN Err("InvalidFormat", "Invalid VHC magic bytes", 0)
  ELSE IF u32_from_le_bytes(img.header_len) # JsonLen(img.header)
  THEN Err("SerializationError", "", 0)
  ELSE from_bytes(img.header)

\* The bytes of a file whose header JSON was written by hand: the image of
\* header h with the number of member key replaced, the length field
\* matching the text.
EditedImage(h, key, value) ==
  LET json == to_bytes(h)
      edited == Vec([i \in 1..Len(json) |->
                       IF json[i].key = key THEN [json[i] EXCEPT !.text = Digits(value)]
                       ELSE json[i]])
  IN [magic |-> VHC_MAGIC,
      header_len |-> u32_to_le_bytes(JsonLen(edited)),
      header |-> edited,
      data |-> <<>>]

\* The numbers written into a header by hand: one that keeps the geometry
\* valid and others that break it.
HeaderEdits ==
  {[key |-> "dimension", value |-> 16], [key |-> "dimension", value |-> 7],
   [key |-> "dimension", value |-> 12], [key |-> "blocks_per_partition", value |-> 0],
   [key |-> "block_size", value |-> 64], [key |-> "block_size", value |-> 16],
   [key |-> "block_size", value |-> 33], [key |-> "mac_bits", value |-> 100],
   [key |-> "fragment_size", value |-> 4], [key |-> "fragment_size", value |-> 0],
   [key |-> "fragment_size", value |-> 5]}

\* The block lists written to a file: n copies of the created partition
\* (write_vhc_file takes any list of blocks).
RECURSIVE Copies(_, _)
Copies(blocks, n) == IF n = 0 THEN <<>> ELSE blocks \o Copies(blocks, n - 1)

CopiesWritten == {0, 1, 8}

AppendedCounts == {1, 8}

\* write_vhc_file(path, &VhcFile { header, blocks }) with copies of the
\* partition just created; ghost remembers what was handed to the writer.
CallWrite(n) ==
  /\ res.op = "create"
  /\ pool # <<>>
  /\ \E blocks \in {Copies(pool, n)} :
        /\ file' = write_vhc_file(hdr, blocks)
        /\ ghost' = [header |-> hdr, blocks |-> blocks]
  /\ res' = [op |-> "write", copies |-> n]
  /\ steps' = steps + 1
  /\ UNCHANGED <<pool, hdr>>

\* read_vhc_file(path) and get_block_count(path) on the bytes of the file
\* just written.
CallRead ==
  /\ res.op = "write"
  /\ \E img \in {write_vhc_bytes(file.header, file.blocks)} :
        res' = [op |-> "read", r |-> read_vhc_bytes(img), count |-> get_block_count_bytes(img)]
  /\ steps' = steps + 1
  /\ UNCHANGED <<file, pool, hdr, ghost>>

\* VhcHeader::from_bytes(&header.to_bytes()) on a header VhcHeader::new
\* returned.
CallDecode ==
  /\ res.op = "new"
  /\ res.r.ok
  /\ res' = [op |-> "decode", header |-> res.r.val, r |-> from_bytes(to_bytes(res.r.val))]
  /\ steps' = steps + 1
  /\ UNCHANGED <<file, pool, hdr, ghost>>

\* append_blocks_to_vhc(path, new_blocks) with the first m blocks of the
\* partition.
CallAppend(m, how) ==
  /\ res.op = "write"
  /\ \E out \in {append_blocks_to_vhc(file, SubSeq(pool, 1, m), how)} :
        /\ file' = out.file
        /\ res' = [op |-> "append_blocks", before |-> BlockCount(file), new |-> m,
                   r |-> out.r]
  /\ steps' = steps + 1
  /\ UNCHANGED <<pool, hdr, ghost>>

\* k data blocks of four bytes, each with content of its own.
DataBlocks(k) == Vec([i \in 1..k |-> Source(4, Atom("block", i, 0, <<>>, <<>>, <<>>))])

BlockCounts == {1, 2, 3, 8}

\* Bases whose runs stay within one low byte, cross a multiple of 256, and
\* wrap around u128::MAX.
UnsequenceBases == {U128(0, 0), U128(0, 250), U128(0, 255), U128(7, 3), U128(255, 255)}

\* The orders in which the tagged blocks arrive.
Orders == {"keep", "reverse", "rotate"}

Permuted(s, how) ==
  IF how = "reverse" THEN Reverse(s)
  ELSE IF how = "rotate" /\ s # <<>> THEN Tail(s) \o <<Head(s)>>
  ELSE s

\* unsequence_blocks on a permutation of sequence_blocks(blocks, base).
CallUnsequence(base, k, how) ==
  /\ steps = 0
  /\ res' = [op |-> "unsequence", base |-> base, k |-> k, how |-> how,
             r |-> unsequence_blocks(Permuted(sequence_blocks(DataBlocks(k), base), how))]
  /\ steps' = steps + 1
  /\ UNCHANGED <<file, pool, hdr, ghost>>

\* sequence_blocks(blocks, base) on k data blocks.
CallSequence(base, k) ==
  /\ steps = 0
  /\ res' = [op |-> "sequence", base |-> base, k |-> k,
             r |-> sequence_blocks(DataBlocks(k), base)]
  /\ steps' = steps + 1
  /\ UNCHANGED <<file, pool, hdr, ghost>>

\* n fragments of len bytes, each with content of its own.
Fragments(n, len) == Vec([i \in 1..n |-> Source(len, Atom("fragment", i, 0, <<>>, <<>>, <<>>))])

AontAlgorithms == {"rivest", "oaep"}

FragsPerBlock == {1, 2, 4}

FragmentLengths == {2, 8, 16, 32}

BlocksOfFragments == {1, 2, 3}

KeyDraws == {0, 1}

\* reverse_aont(apply_aont(fragments, algorithm, frags_per_block), ...) on
\* blocks x frags_per_block fragments; draw names the random key.
CallAont(algorithm, frags_per_block, len, blocks, draw) ==
  /\ steps = 0
  /\ \E applied \in {apply_aont(Fragments(blocks * frags_per_block, len), algorithm,
                                 frags_per_block, KeyDraw(draw))} :
        res' = [op |-> "aont", algorithm |-> algorithm, frags_per_block |-> frags_per_block,
                len |-> len, n |-> blocks * frags_per_block, draw |-> draw,
                applied |-> Len(applied),
                r |-> reverse_aont(applied, algorithm, frags_per_block)]
  /\ steps' = steps + 1
  /\ UNCHANGED <<file, pool, hdr, ghost>>

\* The compressed_size fields a holder of the secret can put in front of a
\* payload: values below, at and above the room left, and values at and
\* around 2^64 - 16.
CraftedSizes ==
  {[kind |-> "small", v |-> 0], [kind |-> "small", v |-> 40], [kind |-> "small", v |-> 208],
   [kind |-> "small", v |-> 209], [kind |-> "top", v |-> 1], [kind |-> "top", v |-> 16],
   [kind |-> "top", v |-> 17], [kind |-> "top", v |-> 1000]}

CraftedHeaders ==
  {HeaderWith(32, 256, "none", "rivest", "sha3"), HeaderWith(32, 256, "none", "oaep", "sha3")}

\* The blocks of a partition whose metadata was written by hand: the two
\* size fields, then the data, zero-padded to the partition and protected
\* with the secret as create_partition protects it.
CraftedPartition(size, p, secret, header) ==
  LET field == IF size.kind = "top" THEN U64LeTop(size.v) ELSE U64Le(size.v)
      with_meta == Concat(Concat(field, field), DataBytes(p))
      target_bytes == header.block_size * data_blocks_per_partition(header)
  IN ProtectPayload(Resize(with_meta, target_bytes), secret, header, U128(0, 0), KeyDraw(0))

\* extract_partition(blocks, secret, header) on a partition with crafted
\* metadata.
CallExtractCrafted(size, h) ==
  /\ steps = 0
  /\ \E blocks \in {CraftedPartition(size, SmallPayload, SecretBytes(1), h)} :
        res' = [op |-> "extract_crafted", size |-> size, header |-> h,
                verified |-> Len(authenticated_blocks(blocks, SecretBytes(1), h)),
                room |-> h.block_size * data_blocks_per_partition(h),
                r |-> extract_partition(blocks, SecretBytes(1), h)]
  /\ steps' = steps + 1
  /\ UNCHANGED <<file, pool, hdr, ghost>>

\* Empty containers of every compression, with blocks of 32, 256 and 2304
\* bytes.
SealedHeaders ==
  {HeaderWith(b, 256, c, "oaep", "sha3") :
     b \in {32, 256, 2304}, c \in {"zstd", "lz4", "brotli", "none"}}

\* seal_file(path) on a container that holds no block yet.
CallSeal(h) ==
  /\ steps = 0
  /\ \E out \in {seal_file(write_vhc_file(h, <<>>),
                            [n |-> 0, base |-> U128(0, 0), how |-> "keep"])} :
        /\ file' = out.file
        /\ res' = [op |-> "seal", header |-> h, r |-> out.r]
  /\ steps' = steps + 1
  /\ UNCHANGED <<pool, hdr, ghost>>

\* read_vhc_header(path) on a file whose header was edited by hand.
CallReadHeader(h, e) ==
  /\ steps = 0
  /\ res' = [op |-> "read_header", edit |-> e,
             r |-> read_vhc_header_bytes(EditedImage(h, e.key, e.value)),
             file |-> read_vhc_bytes(EditedImage(h, e.key, e.value))]
  /\ steps' = steps + 1
  /\ UNCHANGED <<file, pool, hdr, ghost>>

\* The valid block sizes tried: every even size from 32 to 300, and larger
\* ones with few and with many factors of two.
FragmentedBlockSizes ==
  {b \in 32..300 : b % 2 = 0} \cup {2298, 2304, 4352, 4354, 8192, 65536}

\* VhcHeader::calculate_fragment_size(block_size).
CallFragmentSize(block_size) ==
  /\ steps = 0
  /\ res' = [op |-> "fragment_size", block_size |-> block_size,
             r |-> calculate_fragment_size(block_size)]
  /\ steps' = steps + 1
  /\ UNCHANGED <<file, pool, hdr, ghost>>

CallsNext ==
  \/ \E block_size \in FragmentedBlockSizes : CallFragmentSize(block_size)
  \/ \E h \in CallHeaders, e \in HeaderEdits : CallReadHeader(h, e)
  \/ \E h \in SealedHeaders : CallSeal(h)
  \/ \E size \in CraftedSizes, h \in CraftedHeaders : CallExtractCrafted(size, h)
  \/ \E algorithm \in AontAlgorithms, frags_per_block \in FragsPerBlock,
        len \in FragmentLengths, blocks \in BlocksOfFragments, draw \in KeyDraws :
       CallAont(algorithm, frags_per_block, len, blocks, draw)
  \/ \E base \in UnsequenceBases, k \in BlockCounts : CallSequence(base, k)
  \/ CallRead
  \/ CallDecode
  \/ \E base \in UnsequenceBases, k \in BlockCounts, how \in Orders : CallUnsequence(base, k, how)
  \/ \E n \in CopiesWritten : CallWrite(n)
  \/ \E m \in AppendedCounts, how \in Shuffles : CallAppend(m, how)
  \/ \E p \in CallPayloads, h \in CallHeaders, s \in CallSecrets : CallCreate(p, h, s)
  \/ \E other \in BOOLEAN, s \in CallSecrets : CallExtract(other, s)
  \/ \E cube_id \in CubeIds, partitions \in Dimensions, blocks_per_partition \in Dimensions,
        block_size \in BlockSizes, mac_bits \in MacBitsDrawn :
       CallNew(cube_id, partitions, blocks_per_partition, block_size, mac_bits)

SpecCalls == CallsInit /\ [][CallsNext]_vars

(***************************************************************************)
(* Properties of the single calls (checked under SpecCalls)                *)
(***************************************************************************)
GeometryErrors == {"InvalidDimension", "InvalidBlockSize", "InvalidMacBits", "InvalidCube"}

\* C15 (square cube): a header VhcHeader::new accepts has cube_id = dimension
\* = blocks_per_partition = N and capacity N^2, and arguments where the three
\* values differ are rejected with a geometry error.
SquareCube ==
  res.op = "new"
    => /\ res.r.ok
            => /\ res.r.val.cube_id = res.r.val.dimension
               /\ res.r.val.dimension = res.r.val.blocks_per_partition
               /\ theoretical_block_count(res.r.val) = res.r.val.dimension * res.r.val.dimension
       /\ (res.cube_id # res.partitions \/ res.partitions # res.blocks_per_partition)
            => (~res.r.ok /\ res.r.err \in GeometryErrors)

BadDimension(n) == n < 8 \/ n % 8 # 0

BadBlockSize(n) == n < 32 \/ n % 2 # 0

BadMacBits(n) == n \notin {128, 256, 512}

\* C16 (geometry validation): VhcHeader::new returns InvalidDimension when
\* partitions or blocks_per_partition is below 8 or not a multiple of 8;
\* otherwise InvalidBlockSize when block_size is below 32 or odd; otherwise
\* InvalidMacBits when mac_bits is not 128, 256 or 512; otherwise Ok, whatever
\* the cube id.
GeometryValidation ==
  res.op = "new"
    => IF BadDimension(res.partitions) \/ BadDimension(res.blocks_per_partition)
       THEN ~res.r.ok /\ res.r.err = "InvalidDimension"
       ELSE IF BadBlockSize(res.block_size)
       THEN ~res.r.ok /\ res.r.err = "InvalidBlockSize"
       ELSE IF BadMacBits(res.mac_bits)
       THEN ~res.r.ok /\ res.r.err = "InvalidMacBits"
       ELSE res.r.ok

GeometryValidationWitness ==
  /\ res.op = "new"
  /\ res.partitions = 8
  /\ res.blocks_per_partition = 12
  /\ res.block_size = 33
  /\ res.mac_bits = 384
  /\ res.r = Err("InvalidDimension", "", 12)

\* T = B x data_blocks_per_partition.
TargetBytes(h) == h.block_size * data_blocks_per_partition(h)

\* C11 (create reports data-too-large): create_partition padded to
\* data_blocks_per_partition returns the data-too-large error when
\* 16 + |compress(P)| > T, and otherwise pads meta || compressed to exactly T
\* bytes, which segment into data_blocks_per_partition blocks.
CreateDataTooLarge ==
  res.op = "create"
    => IF ~Fits(res.payload, hdr)
       THEN ~res.r.ok /\ res.r.err = "DataTooLarge" /\ pool = <<>>
       ELSE /\ res.r.ok
            /\ (res.count - (IF hdr.aont = "rivest" THEN 1 ELSE 0)) * hdr.block_size
                 = TargetBytes(hdr)

\* C12 (recovery failures are integrity errors): an extract_partition that
\* fails after at least one block has authenticated returns
\* HypercubeError::IntegrityError, and no payload.
RecoveryFailuresAreIntegrity ==
  (res.op = "extract" /\ res.verified > 0 /\ ~res.r.ok)
    => (res.r.err = "IntegrityError" /\ res.r.val = <<>>)

\* C17 (secret-missing): create_partition and extract_partition called with
\* the empty secret fail with HypercubeError::SecretRequired and produce no
\* blocks and no payload.
SecretMissing ==
  (res.op \in {"create", "extract"} /\ res.secret = 0)
    => /\ res.r = Err("SecretRequired", "", 0)
       /\ res.op = "create" => pool = <<>>

\* C13 (append never exceeds capacity): append_blocks_to_vhc rejects with
\* file-full, and leaves the file as it was, whenever the blocks on disk plus
\* the new blocks exceed the capacity C.
AppendStep ==
  (Stepped("append_blocks") /\ res'.before + res'.new > Capacity(file))
    => (~res'.r.ok /\ res'.r.err = "FileFull" /\ file' = file)

AppendWithinCapacity == [][AppendStep]_vars

\* C20 (unsequence sorts by value): for every base, every k >= 1 and every
\* permutation of the output of sequence_blocks(blocks, base),
\* unsequence_blocks returns Some(blocks), the data blocks in their original
\* order.
OrderRestored ==
  res.op = "unsequence" => res.r = [some |-> TRUE, val |-> DataBlocks(res.k)]

\* C19 (container write/read round trip): for a file with a valid header and
\* blocks all of 16 + B + M bytes, reading back what write_vhc_file wrote
\* gives a header equal field for field, the same blocks in the same order,
\* and get_block_count gives the number of blocks written; decoding an
\* encoded header gives the header.
WriteReadRoundTrip ==
  /\ res.op = "read"
       => /\ res.r.ok
          /\ res.r.val.header = ghost.header
          /\ res.r.val.blocks = ghost.blocks
          /\ res.count = Ok(Len(ghost.blocks))
  /\ res.op = "decode" => res.r = Ok(res.header)

WriteReadRoundTripWitness ==
  /\ res.op = "read"
  /\ res.r.ok
  /\ Len(ghost.blocks) = 64
  /\ Len(res.r.val.blocks) = 64
  /\ ghost.header.mac_bits = 512

\* C14 (header carries no per-partition material): the header add_partition
\* writes when it creates a container is a function of the options only; a
\* run with the same options and any other payload writes the same header.
HeaderFromOptionsOnly ==
  (res.op = "add" /\ steps = 1 /\ file.exists)
    => \A a \in Additions, preset \in PresetsFor(file) :
         add_partition(NoFile, DataBytes(a.payload), AddOptions(preset, a.secret, FALSE),
                       [n |-> 0, base |-> U128(0, 0), how |-> "keep"]).file.header
           = file.header

\* C18 (empty append is a no-op): append_blocks_to_vhc(path, []) returns Ok
\* and leaves the file as it was, the blocks in the order they had.
EmptyAppendStep == Stepped("append") => (res'.r.ok /\ file' = file)

EmptyAppendNoOp == [][EmptyAppendStep]_vars

EmptyAppendNoOpWitness ==
  /\ res.op = "append"
  /\ res.r.ok
  /\ file.exists
  /\ BlockCount(file) = 8

\* (u + c) mod 2^128 by schoolbook addition on the digits, the carry c
\* entering at the last digit.
RECURSIVE PlusCarry(_, _, _)
PlusCarry(u, k, c) ==
  IF k = 0 THEN u
  ELSE PlusCarry([u EXCEPT ![k] = (u[k] + c) % 256], k - 1, (u[k] + c) \div 256)

PlusMod(u, i) == PlusCarry(u, Len(u), i)

\* C21 (sequence assignment): the i-th block (i = 0..N-1) gets the tag
\* (base + i) mod 2^128, stored as 16 little-endian bytes, and keeps its
\* data; incrementing u128::MAX yields 0.
SequenceAssignment ==
  res.op = "sequence"
    => /\ Len(res.r) = res.k
       /\ \A i \in 1..res.k :
            /\ Len(res.r[i].sequence) = SEQUENCE_SIZE
            /\ res.r[i].sequence = Reverse(PlusMod(res.base, i - 1))
            /\ res.r[i].data = DataBlocks(res.k)[i]

SequenceAssignmentWitness ==
  /\ res.op = "sequence"
  /\ res.k = 3
  /\ res.base = U128(255, 255)
  /\ res.r[2].sequence = U128(0, 0)
  /\ res.r[3].sequence = Reverse(U128(0, 1))

\* The multiset of the elements of a list.
BagOf(list) ==
  [b \in {list[i] : i \in 1..Len(list)} |-> Cardinality({i \in 1..Len(list) : list[i] = b})]

\* C22 (append preserves content): a successful append_blocks_to_vhc with a
\* non-empty list leaves the header unchanged and makes the multiset of the
\* file's blocks the old blocks plus the new ones: no block is lost,
\* duplicated or altered, whatever the order written.
AppendContentStep ==
  (Stepped("append_blocks") /\ res'.new > 0 /\ res'.r.ok)
    => /\ file'.header = file.header
       /\ Len(file'.blocks) = Len(file.blocks) + res'.new
       /\ BagOf(file'.blocks) = BagOf(file.blocks \o SubSeq(pool, 1, res'.new))

AppendPreservesContent == [][AppendContentStep]_vars

\* An append of a whole partition to a file that held one, after which an
\* old block is no longer where it was.
AppendPreservesContentWitness ==
  /\ res.op = "append_blocks"
  /\ res.r.ok
  /\ res.before = 8
  /\ res.new = 8
  /\ Len(file.blocks) = 16
  /\ file.blocks[1] = pool[8]
  /\ file.blocks[16] = pool[1]

AontLengths ==
  res.applied = IF res.algorithm = "rivest" THEN res.n + res.frags_per_block ELSE res.n

RoomForKey == res.frags_per_block * res.len >= KEY_SIZE

ExceedsPayload(size, room) ==
  size.kind = "top" \/ PartitionMetaSIZE + size.v > room

\* C24 (metadata bounds check): for every 64-bit compressed_size found in
\* the recovered metadata, extract_partition returns an integrity error
\* whenever 16 + compressed_size > |payload|, values from 2^64 - 16 on
\* included, and never panics.
MetadataBoundsChecked ==
  res.op = "extract_crafted"
    => /\ res.r.err # "Panic"
       /\ ExceedsPayload(res.size, res.room)
            => (~res.r.ok /\ res.r.err = "IntegrityError")

\* C25 (chaff always fits): inside seal_file every chaff payload fits the
\* partition for each compression algorithm, so create_partition never
\* returns a capacity error during sealing and seal_file fills a container
\* that is not full.
ChaffAlwaysFits ==
  (res.op = "seal" /\ steps = 1)
    => /\ res.r = Ok(theoretical_block_count(res.header))
       /\ BlockCount(file) = Capacity(file)

\* N >= 8, N mod 8 = 0, B >= 32 and even, mac_bits in {128, 256, 512},
\* fragment_size >= 1 dividing B.
ValidGeometry(h) ==
  /\ ~BadDimension(h.dimension)
  /\ ~BadDimension(h.blocks_per_partition)
  /\ ~BadBlockSize(h.block_size)
  /\ ~BadMacBits(h.mac_bits)
  /\ h.fragment_size >= 1
  /\ h.block_size % h.fragment_size = 0

\* C26 (geometry holds for headers read from disk): every header returned by
\* read_vhc_header and read_vhc_file has a valid geometry, and a file whose
\* header JSON violates it is rejected with a geometry error.
GeometryOnRead ==
  res.op = "read_header"
    => /\ res.r.ok => ValidGeometry(res.r.val)
       /\ res.file.ok => ValidGeometry(res.file.val.header)
       /\ ~res.r.ok => res.r.err \in GeometryErrors

PowersOfTwo == {1, 2, 4, 8, 16, 32, 64, 128, 256}

\* F is a power of two with 1 <= F <= 256 that divides B exactly.
FragmentSizeDivides ==
  /\ res.r \in PowersOfTwo
  /\ res.block_size % res.r = 0

\* C27 (fragment size), as stated: F is a power of two with 1 <= F <= 256, F
\* divides B exactly, and the block splits into at most 17 fragments.
FragmentSizeBounds ==
  res.op = "fragment_size"
    => (FragmentSizeDivides /\ res.block_size \div res.r <= 17)

\* C27 (fragment size), amended: F is a power of two with 2 <= F <= 256 that
\* divides B exactly; the block splits into more than 17 fragments only when
\* F is at the 256-byte limit or when no larger power of two divides B.
FragmentSizeWithinLimits ==
  res.op = "fragment_size"
    => /\ FragmentSizeDivides
       /\ res.r >= 2
       /\ res.block_size \div res.r > 17
            => (res.r = 256 \/ res.block_size % (2 * res.r) # 0)

FragmentSizeWithinLimitsWitness ==
  /\ res.op = "fragment_size"
  /\ res.block_size = 2298
  /\ res.r = 2

(***************************************************************************)
(* Two append_blocks_to_vhc calls on one path (hypercube/src/vhc.rs).      *)
(* Each call is three steps: read_vhc_file and the extend and shuffle in   *)
(* memory; File::create, which truncates the path; the buffered writes and *)
(* the flush, which put the image at offset 0 of the file as it is then.   *)
(* pool[p] is the call of process p, ghost.log the steps in order,         *)
(* ghost.old the blocks the file started with.                             *)
(***************************************************************************)
Procs == {1, 2}

RaceHeader == HeaderWith(32, 256, "none", "rivest", "sha3")

\* n serialized blocks of owner's (0 for the blocks already in the file).
RaceBlocks(owner, n) ==
  Vec([i \in 1..n |->
         Source(total_block_size(RaceHeader), Atom("block", owner, i, <<>>, <<>>, <<>>))])

OldCounts == {0, 2}

NewCounts == {0, 1, 2}

Idle == [pc |-> "idle", new |-> <<>>, image |-> NoFile, r |-> NoResult]

\* A variant of FileCreate that opens the path without truncating it.
FileCreateKeeping(f) == f

\* File::create(path) in write_vhc_file: the path exists and holds no byte.
FileCreate(f) == [exists |-> TRUE, header |-> <<>>, blocks |-> <<>>]

\* The writes and the flush of write_vhc_file on the file as it is now: the
\* image goes to offset 0, and bytes of the file past the image's end stay.
write_vhc_over(f, image) ==
  IF f.header = <<>> THEN image
  ELSE [image EXCEPT !.blocks = @ \o SubSeq(f.blocks, Len(@) + 1, Len(f.blocks))]

RaceInit ==
  /\ file \in {write_vhc_file(RaceHeader, RaceBlocks(0, k)) : k \in OldCounts}
  /\ pool = <<Idle, Idle>>
  /\ hdr = RaceHeader
  /\ res = NoResult
  /\ ghost = [log |-> <<>>, old |-> file.blocks]
  /\ steps = 0

RaceLogged(p, ev) == [ghost EXCEPT !.log = Append(@, <<p, ev>>)]

\* append_blocks_to_vhc up to write_vhc_file: the early return, read_vhc_file,
\* extend, shuffle.
RaceRead(p, n, how) ==
  /\ pool[p].pc = "idle"
  /\ \E out \in {append_blocks_to_vhc(file, RaceBlocks(p, n), how)} :
        pool' = [pool EXCEPT ![p] =
                   IF n = 0 \/ ~out.r.ok
                   THEN [pc |-> "done", new |-> RaceBlocks(p, n), image |-> NoFile, r |-> out.r]
                   ELSE [pc |-> "create", new |-> RaceBlocks(p, n), image |-> out.file,
                         r |-> NoResult]]
  /\ res' = [op |-> "race", p |-> p, ev |-> "read"]
  /\ ghost' = RaceLogged(p, "read")
  /\ steps' = steps + 1
  /\ UNCHANGED <<file, hdr>>

RaceCreate(p) ==
  /\ pool[p].pc = "create"
  /\ file' = FileCreate(file)
  /\ pool' = [pool EXCEPT ![p].pc = "flush"]
  /\ res' = [op |-> "race", p |-> p, ev |-> "create"]
  /\ ghost' = RaceLogged(p, "create")
  /\ steps' = steps + 1
  /\ UNCHANGED hdr

RaceFlush(p) ==
  /\ pool[p].pc = "flush"
  /\ file' = write_vhc_over(file, pool[p].image)
  /\ pool' = [pool EXCEPT ![p].pc = "done", ![p].r = Ok(<<>>)]
  /\ res' = [op |-> "race", p |-> p, ev |-> "flush"]
  /\ ghost' = RaceLogged(p, "flush")
  /\ steps' = steps + 1
  /\ UNCHANGED hdr

RaceNext ==
  \/ \E p \in Procs, n \in NewCounts, how \in Shuffles : RaceRead(p, n, how)
  \/ \E p \in Procs : RaceCreate(p)
  \/ \E p \in Procs : RaceFlush(p)

SpecRace == RaceInit /\ [][RaceNext]_vars

(***************************************************************************)
(* Properties of the two appenders (checked under SpecRace)                *)
(***************************************************************************)
\* The position of process p's step ev in the log (0: not taken).
At(p, ev) ==
  IF \E i \in 1..Len(ghost.log) : ghost.log[i] = <<p, ev>>
  THEN CHOOSE i \in 1..Len(ghost.log) : ghost.log[i] = <<p, ev>>
  ELSE 0

BothWrote == \A p \in Procs : At(p, "flush") > 0

\* Both calls read before either starts to write, and q's write follows p's.
ReadThenWroteInTurn(p, q) ==
  /\ BothWrote
  /\ At(p, "read") < At(p, "create") /\ At(q, "read") < At(p, "create")
  /\ At(p, "flush") < At(q, "create")

\* q's whole call follows p's.
Serialized(p, q) == BothWrote /\ At(p, "flush") < At(q, "read")

\* Both calls read before either starts to write.
BothReadFirst ==
  /\ BothWrote
  /\ \A p, q \in Procs : At(p, "read") < At(q, "create")

====
